---- MODULE Spec2Model ----
(***************************************************************************)
(* The ECS runtime of AnimoEngine (package ecs): EntityManager,            *)
(* ComponentManager, SystemManager and World.                              *)
(*                                                                         *)
(* A uint64 bit mask is modelled as the set of its set bit positions       *)
(* (a subset of 0..MaskWidth-1): m | n is union, m &^ n is difference,     *)
(* m & n is intersection and 1 << t is Shl(t), which is 0 (the empty set)  *)
(* for a shift count of MaskWidth or more, as Go defines it.               *)
(*                                                                         *)
(* Every critical section taken under one mutex is one atomic action; a    *)
(* method that releases its lock and takes it again is several actions,    *)
(* with the goroutine's position in pc.                                    *)
(***************************************************************************)
EXTENDS Integers, Sequences, FiniteSets, TLC

\* ------------------------------------------------------------------ bounds
NumThreads == 2      \* goroutines calling into the EntityManager
MaxID      == 4      \* largest value nextID may take (ids are 2..MaxID)
NumKinds   == 2      \* distinct component kinds (Go types) in use
NumInsts   == 2      \* distinct component values per kind
NumConcKinds == 1    \* kinds the concurrent goroutines add and remove
NumSystems == 3      \* System values that exist
MaxSystems == 2      \* largest length of SystemManager.systems
MaxQueried == 2      \* entities alive at a time while queries are made
MaxWiths   == 2      \* With calls on one Query
MaxListed  == 3      \* largest length of Archetype.entities
MaxHolders == 1      \* entities alive at a time while payloads are compared
NumObjs    == 3      \* Entity records that exist at the same time
MaxSubs    == 2      \* subscriptions made on the EventBus
MaxQueue   == 1      \* capacity of EventBus.queue
MaxHandled == 2      \* calls of one Handler that are counted
MaxLoads   == 3      \* LoadSync calls made on the ResourceManager

\* ------------------------------------------------------- program constants
MaskWidth == 64      \* Entity.componentMask is a uint64
TypeBase  == 100     \* HealthComponentType = iota + 100

Threads  == 1..NumThreads
Objs     == 1..NumObjs
Kinds    == 1..NumKinds
CapKinds == 1..(MaskWidth + 1)
IdInputs == 1..MaxID
Nil      == [kind |-> 0, inst |-> 0]
NoObj    == 0
NoTok    == -1
EmptyMap == [i \in {} |-> 0]

ListenerIDs == 1..MaxSubs
Resources   == 1..MaxLoads
NoRes       == 0

Components == [kind : Kinds, inst : 1..NumInsts]
Systems    == 1..NumSystems

\* The constant a component's own Type() method returns.
DeclaredType(c) == TypeBase + (c.kind - 1)

\* 1 << t on a uint64
Shl(t) == IF t < MaskWidth THEN {t} ELSE {}

VARIABLES
  nextID,        \* EntityManager.nextID
  entities,      \* EntityManager.entities: alive id -> Entity record
  freeIDs,       \* EntityManager.freeIDs
  entityPool,    \* EntityManager.entityPool: the records held by the sync.Pool
  componentMask, \* Entity.componentMask of every record
  components,    \* ComponentManager.components: token -> (id -> component)
  typeRegistry,  \* ComponentManager.typeRegistry: kind -> token
  nextType,      \* ComponentManager.nextType
  pc,            \* position of each goroutine inside its current call
  callId,        \* the id argument of the call in progress
  callComp,      \* the component argument of AddComponent
  callType,      \* the componentType argument of RemoveComponent, or the
                 \* token cm.AddComponent resolved
  entity         \* the local variable entity (*Entity) of the call in progress

ecsVars == <<nextID, entities, freeIDs, entityPool, componentMask, components,
             typeRegistry, nextType, pc, callId, callComp, callType, entity>>

VARIABLES
  systems,       \* SystemManager.systems
  priority,      \* BaseSystem.priority of every system
  enabled,       \* BaseSystem.enabled of every system
  running,       \* World.running
  paused,        \* World.paused
  upc,           \* position of the frame driver inside World.Update, or how
                 \* its last call returned ("skipped", "done")
  snapshot,      \* the local copy SystemManager.Update iterates
  idx,           \* the loop position in that copy
  invoked        \* the systems whose Update the current World.Update call
                 \* has invoked so far, in order

sysVars == <<systems, priority, enabled, running, paused, upc, snapshot, idx,
             invoked>>

VARIABLES
  queryMask,     \* the componentMask argument of the query in progress
  result,        \* the slice GetEntitiesWithComponents returns to its caller
  archetypes,    \* ArchetypeManager.archetypes: mask -> Archetype.entities
  findMask,      \* the componentMask argument of the last FindArchetypes
  found,         \* the archetypes (their masks) the last FindArchetypes returned
  builderMask,   \* Query.componentMask of the Query under construction
  withs          \* the arguments of the With calls made on that Query, in
                 \* the order of the calls

qryVars == <<queryMask, result, archetypes, findMask, found, builderMask,
             withs>>

VARIABLES
  mu,            \* em.mu, cm.mu and sm.mu: the goroutine that holds the
                 \* write lock, the one that has announced itself as writer,
                 \* and the goroutines that hold the read lock
  held,          \* the mutexes each goroutine holds, in the order it took them
  todo           \* the lock and unlock calls each goroutine still has to
                 \* make before its current call returns

lockVars == <<mu, held, todo>>

VARIABLES
  listeners,     \* EventBus.listeners[t], for the event type t in use
  busNextID,     \* EventBus.nextID
  busRunning,    \* EventBus.running
  queue,         \* the number of events of type t in EventBus.queue
  ppc,           \* position of each goroutine inside processEvent
  listenersCopy, \* its local listenersCopy
  lidx,          \* its position in the loop over listenersCopy
  listenersToRemove, \* its local listenersToRemove
  handled        \* how often the Handler of each listener has been called

busVars == <<listeners, busNextID, busRunning, queue, ppc, listenersCopy, lidx,
             listenersToRemove, handled>>

VARIABLES
  resources,     \* ResourceManager.resources[id], for the path in use: the
                 \* Resource it points at, or NoRes
  cache,         \* whether ResourceManager.cache holds the path
  loaders,       \* whether a loader is registered for the resource type
  resState,      \* Resource.State of every Resource
  refCount,      \* Resource.RefCount of every Resource
  lpc,           \* position of each goroutine inside LoadSync
  resource,      \* its local variable resource (*Resource)
  loadSyncs,     \* the LoadSync calls made so far
  returned,      \* the LoadSync calls that have returned a nil error
  loadCalls      \* the calls of loader.Load made so far

resVars == <<resources, cache, loaders, resState, refCount, lpc, resource,
             loadSyncs, returned, loadCalls>>

vars == <<ecsVars, sysVars, qryVars, lockVars, busVars, resVars>>

\* ----------------------------------------------------------------- readers
Alive == DOMAIN entities

Exists(id) == id \in Alive

\* ComponentManager.HasComponent
CmHasComponent(id, t) == t \in DOMAIN components /\ id \in DOMAIN components[t]

\* ComponentManager.GetComponent / EntityManager.GetComponent: the payload, or
\* Nil for ErrComponentNotFound
GetComponent(id, t) == IF CmHasComponent(id, t) THEN components[t][id] ELSE Nil

\* EntityManager.HasComponent
HasComponent(id, t) ==
  /\ id \in Alive
  /\ componentMask[entities[id]] \cap Shl(t) # {}

\* ------------------------------------------------------------- sync.Pool
\* Records some goroutine or the table still points at.
Referenced ==
  {entities[i] : i \in Alive} \cup entityPool \cup {entity[th] : th \in Threads}

\* entityPool.Get(): a pooled record, or a new one from New.
PoolGet ==
  entityPool \cup
    (IF Objs \ Referenced = {} THEN {}
     ELSE {CHOOSE o \in Objs \ Referenced : \A p \in Objs \ Referenced : o <= p})

\* ------------------------------------------------------ ComponentManager
\* ComponentManager.RemoveAllComponents applied to a set of ids
RemoveAllComponents(ids) ==
  [t \in DOMAIN components |->
     [i \in DOMAIN components[t] \ ids |-> components[t][i]]]

Return(th) ==
  /\ pc' = [pc EXCEPT ![th] = "idle"]
  /\ callId' = [callId EXCEPT ![th] = 0]
  /\ callComp' = [callComp EXCEPT ![th] = Nil]
  /\ callType' = [callType EXCEPT ![th] = NoTok]
  /\ entity' = [entity EXCEPT ![th] = NoObj]

Idle(th) == pc[th] = "idle"

\* ---------------------------------------------------------- EntityManager
\* CreateEntity with line 53 left out: the reused id stays on the free list.
CreateEntityKeepsFreeId(th) ==
  /\ UNCHANGED <<sysVars, qryVars, lockVars, busVars, resVars>>
  /\ Idle(th)
  /\ LET reuse == Len(freeIDs) > 0
         id == IF reuse THEN freeIDs[Len(freeIDs)] ELSE nextID + 1
     IN /\ reuse \/ nextID < MaxID
        /\ freeIDs' = freeIDs
        /\ nextID' = IF reuse THEN nextID ELSE nextID + 1
        /\ \E o \in PoolGet :
             /\ entityPool' = entityPool \ {o}
             /\ componentMask' = [componentMask EXCEPT ![o] = {}]
             /\ entities' = [i \in Alive \cup {id} |->
                               IF i = id THEN o ELSE entities[i]]
  /\ UNCHANGED <<components, typeRegistry, nextType, pc, callId, callComp,
                 callType, entity>>

\* CreateEntity that never takes an id from the free list.
CreateEntityAlwaysFresh(th) ==
  /\ Idle(th)
  /\ UNCHANGED <<sysVars, qryVars, lockVars, busVars, resVars>>
  /\ nextID < MaxID
  /\ freeIDs' = freeIDs
  /\ nextID' = nextID + 1
  /\ \E o \in PoolGet :
       /\ entityPool' = entityPool \ {o}
       /\ componentMask' = [componentMask EXCEPT ![o] = {}]
       /\ entities' = [i \in Alive \cup {nextID + 1} |->
                         IF i = nextID + 1 THEN o ELSE entities[i]]
  /\ UNCHANGED <<components, typeRegistry, nextType, pc, callId, callComp,
                 callType, entity>>

\* CreateEntity that takes the last free id and cuts the first one off.
CreateEntityCutsFirstFreeId(th) ==
  /\ Idle(th)
  /\ UNCHANGED <<sysVars, qryVars, lockVars, busVars, resVars>>
  /\ LET reuse == Len(freeIDs) > 0
         id == IF reuse THEN freeIDs[Len(freeIDs)] ELSE nextID + 1
     IN /\ reuse \/ nextID < MaxID
        /\ freeIDs' = IF reuse THEN Tail(freeIDs) ELSE freeIDs
        /\ nextID' = IF reuse THEN nextID ELSE nextID + 1
        /\ \E o \in PoolGet :
             /\ entityPool' = entityPool \ {o}
             /\ componentMask' = [componentMask EXCEPT ![o] = {}]
             /\ entities' = [i \in Alive \cup {id} |->
                               IF i = id THEN o ELSE entities[i]]
  /\ UNCHANGED <<components, typeRegistry, nextType, pc, callId, callComp,
                 callType, entity>>

CreateEntity(th) ==
  /\ Idle(th)
  /\ UNCHANGED <<sysVars, qryVars, lockVars, busVars, resVars>>
  /\ LET reuse == Len(freeIDs) > 0
         id == IF reuse THEN freeIDs[Len(freeIDs)] ELSE nextID + 1
     IN /\ reuse \/ nextID < MaxID
        /\ freeIDs' = IF reuse THEN SubSeq(freeIDs, 1, Len(freeIDs) - 1)
                      ELSE freeIDs
        /\ nextID' = IF reuse THEN nextID ELSE nextID + 1
        /\ \E o \in PoolGet :
             /\ entityPool' = entityPool \ {o}
             /\ componentMask' = [componentMask EXCEPT ![o] = {}]
             /\ entities' = [i \in Alive \cup {id} |->
                               IF i = id THEN o ELSE entities[i]]
  /\ UNCHANGED <<components, typeRegistry, nextType, pc, callId, callComp,
                 callType, entity>>

\* DestroyEntity with the test of lines 72-75 left out for the free list: an
\* id that is not alive is pushed again.
DestroyEntityPushesAgain(th, id) ==
  /\ Idle(th)
  /\ UNCHANGED <<sysVars, qryVars, lockVars, busVars, resVars>>
  /\ freeIDs' = Append(freeIDs, id)
  /\ components' = RemoveAllComponents({id})
  /\ componentMask' = IF Exists(id)
                      THEN [componentMask EXCEPT ![entities[id]] = {}]
                      ELSE componentMask
  /\ entityPool' = IF Exists(id) THEN entityPool \cup {entities[id]}
                   ELSE entityPool
  /\ entities' = [i \in Alive \ {id} |-> entities[i]]
  /\ UNCHANGED <<nextID, typeRegistry, nextType, pc, callId, callComp,
                 callType, entity>>

\* DestroyEntity with line 78 left out: the payloads stay in the store.
DestroyEntityKeepsComponents(th, id) ==
  /\ Idle(th)
  /\ UNCHANGED <<sysVars, qryVars, lockVars, busVars, resVars>>
  /\ IF ~Exists(id)
     THEN UNCHANGED ecsVars
     ELSE /\ components' = components
          /\ componentMask' = [componentMask EXCEPT ![entities[id]] = {}]
          /\ entityPool' = entityPool \cup {entities[id]}
          /\ entities' = [i \in Alive \ {id} |-> entities[i]]
          /\ freeIDs' = Append(freeIDs, id)
          /\ UNCHANGED <<nextID, typeRegistry, nextType, pc, callId, callComp,
                         callType, entity>>

\* DestroyEntity with line 84 left out: the id stays in the table.
DestroyEntityKeepsEntry(th, id) ==
  /\ Idle(th)
  /\ UNCHANGED <<sysVars, qryVars, lockVars, busVars, resVars>>
  /\ IF ~Exists(id)
     THEN UNCHANGED ecsVars
     ELSE /\ components' = RemoveAllComponents({id})
          /\ componentMask' = [componentMask EXCEPT ![entities[id]] = {}]
          /\ entityPool' = entityPool \cup {entities[id]}
          /\ entities' = entities
          /\ freeIDs' = Append(freeIDs, id)
          /\ UNCHANGED <<nextID, typeRegistry, nextType, pc, callId, callComp,
                         callType, entity>>

\* DestroyEntity that also takes the id out of every archetype.
DestroyEntityUnlistsId(th, id) ==
  /\ Idle(th)
  /\ UNCHANGED <<sysVars, lockVars, busVars, resVars>>
  /\ UNCHANGED <<queryMask, result, findMask, found, builderMask, withs>>
  /\ IF ~Exists(id)
     THEN UNCHANGED <<ecsVars, archetypes>>
     ELSE /\ components' = RemoveAllComponents({id})
          /\ componentMask' = [componentMask EXCEPT ![entities[id]] = {}]
          /\ entityPool' = entityPool \cup {entities[id]}
          /\ entities' = [i \in Alive \ {id} |-> entities[i]]
          /\ freeIDs' = Append(freeIDs, id)
          /\ archetypes' = [m \in DOMAIN archetypes |->
                              SelectSeq(archetypes[m], LAMBDA e : e # id)]
          /\ UNCHANGED <<nextID, typeRegistry, nextType, pc, callId, callComp,
                         callType, entity>>

DestroyEntity(th, id) ==
  /\ Idle(th)
  /\ UNCHANGED <<sysVars, qryVars, lockVars, busVars, resVars>>
  /\ IF ~Exists(id)
     THEN UNCHANGED ecsVars
     ELSE /\ components' = RemoveAllComponents({id})
          /\ componentMask' = [componentMask EXCEPT ![entities[id]] = {}]
          /\ entityPool' = entityPool \cup {entities[id]}
          /\ entities' = [i \in Alive \ {id} |-> entities[i]]
          /\ freeIDs' = Append(freeIDs, id)
          /\ UNCHANGED <<nextID, typeRegistry, nextType, pc, callId, callComp,
                         callType, entity>>

\* Clear that also starts the id counter again.
EntityManagerClearResetsNextID(th) ==
  /\ Idle(th)
  /\ UNCHANGED <<sysVars, qryVars, lockVars, busVars, resVars>>
  /\ components' = RemoveAllComponents(Alive)
  /\ componentMask' = [o \in Objs |->
        IF o \in {entities[i] : i \in Alive} THEN {} ELSE componentMask[o]]
  /\ entityPool' = entityPool \cup {entities[i] : i \in Alive}
  /\ entities' = EmptyMap
  /\ freeIDs' = <<>>
  /\ nextID' = 1
  /\ UNCHANGED <<typeRegistry, nextType, pc, callId, callComp,
                 callType, entity>>

EntityManagerClear(th) ==
  /\ Idle(th)
  /\ UNCHANGED <<sysVars, qryVars, lockVars, busVars, resVars>>
  /\ components' = RemoveAllComponents(Alive)
  /\ componentMask' = [o \in Objs |->
        IF o \in {entities[i] : i \in Alive} THEN {} ELSE componentMask[o]]
  /\ entityPool' = entityPool \cup {entities[i] : i \in Alive}
  /\ entities' = EmptyMap
  /\ freeIDs' = <<>>
  /\ UNCHANGED <<nextID, typeRegistry, nextType, pc, callId, callComp,
                 callType, entity>>

\* EntityManager.AddComponent, lines 134-140: the existence check under em.mu
\* AddComponent without the test of lines 135-139: the call goes on for an
\* id that is not alive, with a nil entity.
AddComponentLookupSkipsTest(th, id, c) ==
  /\ Idle(th)
  /\ UNCHANGED <<sysVars, qryVars, lockVars, busVars, resVars>>
  /\ pc' = [pc EXCEPT ![th] = "AddGetType"]
  /\ callId' = [callId EXCEPT ![th] = id]
  /\ callComp' = [callComp EXCEPT ![th] = c]
  /\ entity' = [entity EXCEPT ![th] =
                  IF Exists(id) THEN entities[id] ELSE NoObj]
  /\ UNCHANGED <<nextID, entities, freeIDs, entityPool, componentMask,
                 components, typeRegistry, nextType, callType>>

AddComponentLookup(th, id, c) ==
  /\ Idle(th)
  /\ UNCHANGED <<sysVars, qryVars, lockVars, busVars, resVars>>
  /\ IF ~Exists(id)
     THEN UNCHANGED ecsVars                       \* ErrEntityNotFound
     ELSE /\ pc' = [pc EXCEPT ![th] = "AddGetType"]
          /\ callId' = [callId EXCEPT ![th] = id]
          /\ callComp' = [callComp EXCEPT ![th] = c]
          /\ entity' = [entity EXCEPT ![th] = entities[id]]
          /\ UNCHANGED <<nextID, entities, freeIDs, entityPool, componentMask,
                         components, typeRegistry, nextType, callType>>

\* ComponentManager.AddComponent, lines 87-91: the nil check, then the read
\* half of GetComponentType (lines 73-76)
CmGetComponentType(th) ==
  /\ pc[th] = "AddGetType"
  /\ UNCHANGED <<sysVars, qryVars, lockVars, busVars, resVars>>
  /\ IF callComp[th] = Nil
     THEN Return(th)                              \* ErrInvalidComponent
     ELSE IF callComp[th].kind \in DOMAIN typeRegistry
     THEN /\ pc' = [pc EXCEPT ![th] = "AddStore"]
          /\ callType' = [callType EXCEPT ![th] = typeRegistry[callComp[th].kind]]
          /\ UNCHANGED <<callId, callComp, entity>>
     ELSE /\ pc' = [pc EXCEPT ![th] = "AddRegister"]
          /\ UNCHANGED <<callId, callComp, callType, entity>>
  /\ UNCHANGED <<nextID, entities, freeIDs, entityPool, componentMask,
                 components, typeRegistry, nextType>>

\* RegisterComponentType with the test of lines 58-60 left out: every call
\* allocates a token.
RegisterComponentTypeAllocatesAgain(k) ==
  [tok |-> nextType,
   reg |-> [x \in DOMAIN typeRegistry \cup {k} |->
              IF x = k THEN nextType ELSE typeRegistry[x]],
   next |-> nextType + 1,
   comps |-> [t \in DOMAIN components \cup {nextType} |->
                IF t = nextType THEN EmptyMap ELSE components[t]]]

\* ComponentManager.RegisterComponentType: the token of kind k and the
\* registry, counter and storage after the call
RegisterComponentType(k) ==
  IF k \in DOMAIN typeRegistry
  THEN [tok |-> typeRegistry[k], reg |-> typeRegistry, next |-> nextType,
        comps |-> components]
  ELSE [tok |-> nextType,
        reg |-> [x \in DOMAIN typeRegistry \cup {k} |->
                   IF x = k THEN nextType ELSE typeRegistry[x]],
        next |-> nextType + 1,
        comps |-> [t \in DOMAIN components \cup {nextType} |->
                     IF t = nextType THEN EmptyMap ELSE components[t]]]

\* GetComponentType, line 79: the kind was not found, register it
CmRegister(th) ==
  /\ pc[th] = "AddRegister"
  /\ UNCHANGED <<sysVars, qryVars, lockVars, busVars, resVars>>
  /\ LET r == RegisterComponentType(callComp[th].kind)
     IN /\ typeRegistry' = r.reg
        /\ nextType' = r.next
        /\ components' = r.comps
        /\ callType' = [callType EXCEPT ![th] = r.tok]
  /\ pc' = [pc EXCEPT ![th] = "AddStore"]
  /\ UNCHANGED <<nextID, entities, freeIDs, entityPool, componentMask,
                 callId, callComp, entity>>

\* ComponentManager.AddComponent with the test of lines 97-99 left out: the
\* new component replaces the stored one.
CmAddComponentOverwrites(th) ==
  /\ pc[th] = "AddStore"
  /\ UNCHANGED <<sysVars, qryVars, lockVars, busVars, resVars>>
  /\ components' = [components EXCEPT ![callType[th]] =
        [i \in DOMAIN @ \cup {callId[th]} |->
           IF i = callId[th] THEN callComp[th] ELSE @[i]]]
  /\ pc' = [pc EXCEPT ![th] = "AddMask"]
  /\ UNCHANGED <<callId, callComp, callType, entity>>
  /\ UNCHANGED <<nextID, entities, freeIDs, entityPool, componentMask,
                 typeRegistry, nextType>>

\* ComponentManager.AddComponent, lines 93-102; the return to idle from here
\* is the return of ErrComponentExists
CmAddComponent(th) ==
  /\ pc[th] = "AddStore"
  /\ UNCHANGED <<sysVars, qryVars, lockVars, busVars, resVars>>
  /\ IF CmHasComponent(callId[th], callType[th])
     THEN /\ Return(th)                           \* ErrComponentExists
          /\ UNCHANGED components
     ELSE /\ components' = [components EXCEPT ![callType[th]] =
               [i \in DOMAIN @ \cup {callId[th]} |->
                  IF i = callId[th] THEN callComp[th] ELSE @[i]]]
          /\ pc' = [pc EXCEPT ![th] = "AddMask"]
          /\ UNCHANGED <<callId, callComp, callType, entity>>
  /\ UNCHANGED <<nextID, entities, freeIDs, entityPool, componentMask,
                 typeRegistry, nextType>>

\* AddComponent with line 151 left out: the payload is stored, no bit is set.
AddComponentMaskSetsNoBit(th) ==
  /\ pc[th] = "AddMask"
  /\ UNCHANGED <<sysVars, qryVars, lockVars, busVars, resVars>>
  /\ LET r == RegisterComponentType(callComp[th].kind)
     IN /\ typeRegistry' = r.reg
        /\ nextType' = r.next
        /\ components' = r.comps
        /\ componentMask' = componentMask
  /\ Return(th)
  /\ UNCHANGED <<nextID, entities, freeIDs, entityPool>>

\* EntityManager.AddComponent, lines 148-153: the mask bit, under em.mu again
AddComponentMask(th) ==
  /\ pc[th] = "AddMask"
  /\ UNCHANGED <<sysVars, qryVars, lockVars, busVars, resVars>>
  /\ LET r == RegisterComponentType(callComp[th].kind)
     IN /\ typeRegistry' = r.reg
        /\ nextType' = r.next
        /\ components' = r.comps
        /\ componentMask' = [componentMask EXCEPT ![entity[th]] =
                               @ \cup Shl(r.tok)]
  /\ Return(th)
  /\ UNCHANGED <<nextID, entities, freeIDs, entityPool>>

\* EntityManager.RemoveComponent, lines 158-164
RemoveComponentLookup(th, id, t) ==
  /\ Idle(th)
  /\ UNCHANGED <<sysVars, qryVars, lockVars, busVars, resVars>>
  /\ IF ~Exists(id)
     THEN UNCHANGED ecsVars                       \* ErrEntityNotFound
     ELSE /\ pc' = [pc EXCEPT ![th] = "RemoveStore"]
          /\ callId' = [callId EXCEPT ![th] = id]
          /\ callType' = [callType EXCEPT ![th] = t]
          /\ entity' = [entity EXCEPT ![th] = entities[id]]
          /\ UNCHANGED <<nextID, entities, freeIDs, entityPool, componentMask,
                         components, typeRegistry, nextType, callComp>>

\* ComponentManager.RemoveComponent
CmRemoveComponent(th) ==
  /\ pc[th] = "RemoveStore"
  /\ UNCHANGED <<sysVars, qryVars, lockVars, busVars, resVars>>
  /\ IF ~CmHasComponent(callId[th], callType[th])
     THEN /\ Return(th)                           \* ErrComponentNotFound
          /\ UNCHANGED components
     ELSE /\ components' = [components EXCEPT ![callType[th]] =
               [i \in DOMAIN @ \ {callId[th]} |-> @[i]]]
          /\ pc' = [pc EXCEPT ![th] = "RemoveMask"]
          /\ UNCHANGED <<callId, callComp, callType, entity>>
  /\ UNCHANGED <<nextID, entities, freeIDs, entityPool, componentMask,
                 typeRegistry, nextType>>

\* EntityManager.RemoveComponent with line 174 left out: the bit stays set.
RemoveComponentMaskKeepsBit(th) ==
  /\ pc[th] = "RemoveMask"
  /\ UNCHANGED <<sysVars, qryVars, lockVars, busVars, resVars>>
  /\ componentMask' = componentMask
  /\ Return(th)
  /\ UNCHANGED <<nextID, entities, freeIDs, entityPool, components,
                 typeRegistry, nextType>>

\* EntityManager.RemoveComponent, lines 172-176
RemoveComponentMask(th) ==
  /\ pc[th] = "RemoveMask"
  /\ UNCHANGED <<sysVars, qryVars, lockVars, busVars, resVars>>
  /\ componentMask' = [componentMask EXCEPT ![entity[th]] =
                         @ \ Shl(callType[th])]
  /\ Return(th)
  /\ UNCHANGED <<nextID, entities, freeIDs, entityPool, components,
                 typeRegistry, nextType>>

\* A direct call of ComponentManager.RegisterComponentType
RegisterComponentTypeCall(th, k) ==
  /\ Idle(th)
  /\ UNCHANGED <<sysVars, qryVars, lockVars, busVars, resVars>>
  /\ LET r == RegisterComponentType(k)
     IN /\ typeRegistry' = r.reg
        /\ nextType' = r.next
        /\ components' = r.comps
  /\ UNCHANGED <<nextID, entities, freeIDs, entityPool, componentMask, pc,
                 callId, callComp, callType, entity>>

\* A direct call of ComponentManager.GetComponentType, lines 73-76: the read
\* half under the read lock; a kind that is found is returned at line 82
GetComponentTypeCall(th, k) ==
  /\ Idle(th)
  /\ UNCHANGED <<sysVars, qryVars, lockVars, busVars, resVars>>
  /\ IF k \in DOMAIN typeRegistry
     THEN UNCHANGED <<pc, callComp>>
     ELSE /\ pc' = [pc EXCEPT ![th] = "GetTypeRegister"]
          /\ callComp' = [callComp EXCEPT ![th] = [kind |-> k, inst |-> 1]]
  /\ UNCHANGED <<nextID, entities, freeIDs, entityPool, componentMask,
                 components, typeRegistry, nextType, callId, callType, entity>>

\* GetComponentType, line 79: the kind was not found, register it
GetComponentTypeRegister(th) ==
  /\ pc[th] = "GetTypeRegister"
  /\ UNCHANGED <<sysVars, qryVars, lockVars, busVars, resVars>>
  /\ LET r == RegisterComponentType(callComp[th].kind)
     IN /\ typeRegistry' = r.reg
        /\ nextType' = r.next
        /\ components' = r.comps
  /\ Return(th)
  /\ UNCHANGED <<nextID, entities, freeIDs, entityPool, componentMask>>

\* --------------------------------------------------------- SystemManager
Sorted(q) == \A i \in 1..(Len(q) - 1) : priority[q[i]] <= priority[q[i + 1]]

\* How often x occurs in q
Count(q, x) == Cardinality({i \in 1..Len(q) : q[i] = x})

\* AddSystem with the sort.Slice call left out.
SortSliceLeftOut(q) == {q}

\* sort.Slice(q, less by Priority()): some arrangement of q in which no
\* element is less than an earlier one; sort.Slice does not promise to keep
\* equal elements in their original order.
SortSlice(q) ==
  {r \in [1..Len(q) -> {q[i] : i \in 1..Len(q)}] :
     /\ \A i \in 1..Len(q) : Count(r, q[i]) = Count(q, q[i])
     /\ Sorted(r)}

AddSystem(s) ==
  /\ Len(systems) < MaxSystems
  /\ UNCHANGED <<ecsVars, qryVars, lockVars, busVars, resVars>>
  /\ systems' \in SortSlice(Append(systems, s))
  /\ UNCHANGED <<priority, enabled, running, paused, upc, snapshot, idx,
                 invoked>>

\* The list without its element at position i
RemoveAt(q, i) == SubSeq(q, 1, i - 1) \o SubSeq(q, i + 1, Len(q))

\* RemoveSystem without its break: every occurrence of the system goes.
RemoveSystemRemovesAll(s) ==
  /\ UNCHANGED <<ecsVars, qryVars, lockVars, busVars, resVars>>
  /\ systems' = SelectSeq(systems, LAMBDA x : x # s)
  /\ UNCHANGED <<priority, enabled, running, paused, upc, snapshot, idx,
                 invoked>>

RemoveSystem(s) ==
  /\ UNCHANGED <<ecsVars, qryVars, lockVars, busVars, resVars>>
  /\ systems' =
       IF \E i \in 1..Len(systems) : systems[i] = s
       THEN RemoveAt(systems,
              CHOOSE i \in 1..Len(systems) :
                /\ systems[i] = s
                /\ \A j \in 1..(i - 1) : systems[j] # s)
       ELSE systems
  /\ UNCHANGED <<priority, enabled, running, paused, upc, snapshot, idx,
                 invoked>>

SystemManagerClear ==
  /\ systems' = <<>>
  /\ UNCHANGED <<ecsVars, qryVars, lockVars, busVars, resVars>>
  /\ UNCHANGED <<priority, enabled, running, paused, upc, snapshot, idx,
                 invoked>>

SetEnabled(s, b) ==
  /\ enabled' = [enabled EXCEPT ![s] = b]
  /\ UNCHANGED <<ecsVars, qryVars, lockVars, busVars, resVars>>
  /\ UNCHANGED <<systems, priority, running, paused, upc, snapshot, idx,
                 invoked>>

\* ---------------------------------------------------------------- queries
\* The slices that list the elements of S once each, in any order: the order in
\* which Go ranges over a map is not specified.
Enumerations(S) ==
  {q \in [1..Cardinality(S) -> S] :
     \A i, j \in 1..Cardinality(S) : q[i] = q[j] => i = j}

\* The mask test with any one bit enough.
HasSomeBit(mask, m) == mask \cap m # {}

\* (entity.componentMask & componentMask) == componentMask
HasAllBits(mask, m) == (mask \cap m) = m

\* EntityManager.GetEntitiesWithComponents, one critical section of em.mu
GetEntitiesWithComponents(th, m) ==
  /\ Idle(th)
  /\ UNCHANGED <<sysVars, lockVars, busVars, resVars>>
  /\ queryMask' = m
  /\ result' \in Enumerations(
        {id \in Alive : HasAllBits(componentMask[entities[id]], m)})
  /\ pc' = [pc EXCEPT ![th] = "QueryReturn"]
  /\ UNCHANGED <<nextID, entities, freeIDs, entityPool, componentMask,
                 components, typeRegistry, nextType, callId, callComp,
                 callType, entity, archetypes, findMask, found,
                 builderMask, withs>>

\* ComponentManager.GetEntitiesWithComponent, one critical section of cm.mu:
\* the ids that have a payload under componentType t, in the order in which
\* Go happens to range over the map, or the empty slice for an unknown t
CmGetEntitiesWithComponent(th, t) ==
  /\ Idle(th)
  /\ UNCHANGED <<sysVars, lockVars, busVars, resVars>>
  /\ result' \in Enumerations(
        IF t \in DOMAIN components THEN DOMAIN components[t] ELSE {})
  /\ pc' = [pc EXCEPT ![th] = "QueryReturn"]
  /\ UNCHANGED <<nextID, entities, freeIDs, entityPool, componentMask,
                 components, typeRegistry, nextType, callId, callComp,
                 callType, entity, queryMask, archetypes, findMask, found,
                 builderMask, withs>>

\* The caller is done with the slice.
QueryReturn(th) ==
  /\ pc[th] = "QueryReturn"
  /\ UNCHANGED <<sysVars, lockVars, busVars, resVars>>
  /\ queryMask' = {}
  /\ result' = <<>>
  /\ pc' = [pc EXCEPT ![th] = "idle"]
  /\ UNCHANGED <<nextID, entities, freeIDs, entityPool, componentMask,
                 components, typeRegistry, nextType, callId, callComp,
                 callType, entity, archetypes, findMask, found,
                 builderMask, withs>>

\* World.NewQuery: a Query with componentMask 0
NewQuery ==
  /\ builderMask' = {}
  /\ withs' = <<>>
  /\ UNCHANGED <<ecsVars, sysVars, lockVars, busVars, resVars>>
  /\ UNCHANGED <<queryMask, result, archetypes, findMask, found>>

\* Query.With: q.componentMask |= (1 << componentType)
With(t) ==
  /\ Len(withs) < MaxWiths
  /\ builderMask' = builderMask \cup Shl(t)
  /\ withs' = Append(withs, t)
  /\ UNCHANGED <<ecsVars, sysVars, lockVars, busVars, resVars>>
  /\ UNCHANGED <<queryMask, result, archetypes, findMask, found>>

\* Query.Execute
QueryExecute(th) == GetEntitiesWithComponents(th, builderMask)

\* Archetype.Matches(entityMask)
Matches(archetypeMask, entityMask) ==
  (entityMask \cap archetypeMask) = archetypeMask

\* GetOrCreateArchetype that stores a new archetype on every call.
GetOrCreateArchetypeAlwaysNew(m) ==
  /\ archetypes' = [a \in DOMAIN archetypes \cup {m} |->
                      IF a = m THEN <<>> ELSE archetypes[a]]
  /\ UNCHANGED <<ecsVars, sysVars, lockVars, busVars, resVars>>
  /\ UNCHANGED <<queryMask, result, findMask, found, builderMask, withs>>

\* ArchetypeManager.GetOrCreateArchetype: NewArchetype has no entities
GetOrCreateArchetype(m) ==
  /\ archetypes' = IF m \in DOMAIN archetypes THEN archetypes
                   ELSE [a \in DOMAIN archetypes \cup {m} |->
                           IF a = m THEN <<>> ELSE archetypes[a]]
  /\ UNCHANGED <<ecsVars, sysVars, lockVars, busVars, resVars>>
  /\ UNCHANGED <<queryMask, result, findMask, found, builderMask, withs>>

\* Archetype.AddEntity on the archetype the manager holds for mask m: append
ArchetypeAddEntity(m, id) ==
  /\ m \in DOMAIN archetypes
  /\ Len(archetypes[m]) < MaxListed
  /\ archetypes' = [archetypes EXCEPT ![m] = Append(@, id)]
  /\ UNCHANGED <<ecsVars, sysVars, lockVars, busVars, resVars>>
  /\ UNCHANGED <<queryMask, result, findMask, found, builderMask, withs>>

\* The position of the first occurrence of id in q, or 0
IndexOf(q, id) ==
  IF \E i \in 1..Len(q) : q[i] = id
  THEN CHOOSE i \in 1..Len(q) : q[i] = id /\ \A j \in 1..(i - 1) : q[j] # id
  ELSE 0

\* Archetype.RemoveEntity: the first occurrence of the id is cut out
ArchetypeRemoveEntity(m, id) ==
  /\ m \in DOMAIN archetypes
  /\ archetypes' = [archetypes EXCEPT ![m] =
                      IF IndexOf(@, id) = 0 THEN @
                      ELSE SubSeq(@, 1, IndexOf(@, id) - 1)
                             \o SubSeq(@, IndexOf(@, id) + 1, Len(@))]
  /\ UNCHANGED <<ecsVars, sysVars, lockVars, busVars, resVars>>
  /\ UNCHANGED <<queryMask, result, findMask, found, builderMask, withs>>

\* ArchetypeManager.FindArchetypes: the query mask goes to Matches as the
\* entity mask
FindArchetypes(m) ==
  /\ findMask' = m
  /\ found' = {a \in DOMAIN archetypes : Matches(a, m)}
  /\ UNCHANGED <<ecsVars, sysVars, lockVars, busVars, resVars>>
  /\ UNCHANGED <<queryMask, result, archetypes, builderMask, withs>>

ArchetypeManagerClear ==
  /\ archetypes' = EmptyMap
  /\ UNCHANGED <<ecsVars, sysVars, lockVars, busVars, resVars>>
  /\ UNCHANGED <<queryMask, result, findMask, found, builderMask, withs>>

\* ------------------------------------------------------------------ World
Start ==
  /\ running' = TRUE
  /\ UNCHANGED <<ecsVars, qryVars, lockVars, busVars, resVars>>
  /\ paused' = FALSE
  /\ UNCHANGED <<systems, priority, enabled, upc, snapshot, idx, invoked>>

Stop ==
  /\ running' = FALSE
  /\ UNCHANGED <<ecsVars, qryVars, lockVars, busVars, resVars>>
  /\ UNCHANGED <<systems, priority, enabled, paused, upc, snapshot, idx,
                 invoked>>

Pause ==
  /\ paused' = TRUE
  /\ UNCHANGED <<ecsVars, qryVars, lockVars, busVars, resVars>>
  /\ UNCHANGED <<systems, priority, enabled, running, upc, snapshot, idx,
                 invoked>>

Resume ==
  /\ paused' = FALSE
  /\ UNCHANGED <<ecsVars, qryVars, lockVars, busVars, resVars>>
  /\ UNCHANGED <<systems, priority, enabled, running, upc, snapshot, idx,
                 invoked>>

\* The frame driver enters World.Update.
WorldUpdateCall ==
  /\ upc = "idle"
  /\ UNCHANGED <<ecsVars, qryVars, lockVars, busVars, resVars>>
  /\ upc' = "check"
  /\ invoked' = <<>>
  /\ UNCHANGED <<systems, priority, enabled, running, paused, snapshot, idx>>

\* The state test with the paused flag forgotten.
WorldUpdateTestIgnoresPause == ~running

\* World.Update, lines 446-451: the state test under w.mu
WorldUpdateTest == ~running \/ paused

WorldUpdateCheck ==
  /\ upc = "check"
  /\ UNCHANGED <<ecsVars, qryVars, lockVars, busVars, resVars>>
  /\ upc' = IF WorldUpdateTest THEN "skipped" ELSE "copy"
  /\ UNCHANGED <<systems, priority, enabled, running, paused, snapshot, idx,
                 invoked>>

\* A direct call of SystemManager.Update
SystemManagerUpdateCall ==
  /\ UNCHANGED <<ecsVars, qryVars, lockVars, busVars, resVars>>
  /\ upc \in {"idle", "skipped", "done"}
  /\ upc' = "copy"
  /\ invoked' = <<>>
  /\ UNCHANGED <<systems, priority, enabled, running, paused, snapshot, idx>>

\* SystemManager.Update, lines 93-96: the copy taken under sm.mu
SystemManagerUpdateCopy ==
  /\ upc = "copy"
  /\ UNCHANGED <<ecsVars, qryVars, lockVars, busVars, resVars>>
  /\ upc' = "loop"
  /\ snapshot' = systems
  /\ idx' = 1
  /\ UNCHANGED <<systems, priority, enabled, running, paused, invoked>>

\* The loop without its Enabled() test.
InvokesEverySystem(s) == TRUE

\* The loop with a test of World.running in every iteration.
InvokesWhileRunning(s) == enabled[s] /\ running

\* SystemManager.Update, lines 98-102: whether the loop calls system.Update
Invokes(s) == enabled[s]

\* A loop that ranges over sm.systems itself and not over the copy.
SystemManagerUpdateLoopReadsSystems ==
  /\ upc = "loop"
  /\ UNCHANGED <<ecsVars, qryVars, lockVars, busVars, resVars>>
  /\ IF idx > Len(systems)
     THEN /\ upc' = "done"
          /\ snapshot' = <<>>
          /\ idx' = 0
          /\ UNCHANGED invoked
     ELSE /\ invoked' = IF Invokes(systems[idx])
                        THEN Append(invoked, systems[idx]) ELSE invoked
          /\ idx' = idx + 1
          /\ UNCHANGED <<upc, snapshot>>
  /\ UNCHANGED <<systems, priority, enabled, running, paused>>

\* One iteration of the loop, or its end.
SystemManagerUpdateLoop ==
  /\ upc = "loop"
  /\ UNCHANGED <<ecsVars, qryVars, lockVars, busVars, resVars>>
  /\ IF idx > Len(snapshot)
     THEN /\ upc' = "done"
          /\ snapshot' = <<>>
          /\ idx' = 0
          /\ UNCHANGED invoked
     ELSE /\ invoked' = IF Invokes(snapshot[idx])
                        THEN Append(invoked, snapshot[idx]) ELSE invoked
          /\ idx' = idx + 1
          /\ UNCHANGED <<upc, snapshot>>
  /\ UNCHANGED <<systems, priority, enabled, running, paused>>

\* A loop that recovers from the fault of a system and goes on with the next.
SystemUpdatePanicsIsRecovered ==
  /\ upc = "loop"
  /\ idx <= Len(snapshot)
  /\ Invokes(snapshot[idx])
  /\ UNCHANGED <<ecsVars, qryVars, lockVars, busVars, resVars>>
  /\ invoked' = Append(invoked, snapshot[idx])
  /\ idx' = idx + 1
  /\ UNCHANGED <<upc, snapshot>>
  /\ UNCHANGED <<systems, priority, enabled, running, paused>>

\* SystemManager.Update, line 100: system.Update panics. Neither
\* SystemManager.Update nor World.Update defers a recover, so the panic unwinds
\* both frames, with their locals, and reaches the caller of World.Update.
SystemUpdatePanics ==
  /\ upc = "loop"
  /\ idx <= Len(snapshot)
  /\ Invokes(snapshot[idx])
  /\ UNCHANGED <<ecsVars, qryVars, lockVars, busVars, resVars>>
  /\ invoked' = Append(invoked, snapshot[idx])
  /\ upc' = "panicked"
  /\ snapshot' = <<>>
  /\ idx' = 0
  /\ UNCHANGED <<systems, priority, enabled, running, paused>>

\* The frame driver has its World.Update call back, returned or panicked and
\* recovered by the driver, and is ready for the next frame.
WorldUpdateReturn ==
  /\ upc \in {"skipped", "done", "panicked"}
  /\ UNCHANGED <<ecsVars, qryVars, lockVars, busVars, resVars>>
  /\ upc' = "idle"
  /\ UNCHANGED <<systems, priority, enabled, running, paused, snapshot, idx,
                 invoked>>

\* ------------------------------------------------------------ the mutexes
\* em.mu (EntityManager), cm.mu (ComponentManager) and sm.mu (SystemManager)
Mutexes == {"em", "cm", "sm"}

\* sync.RWMutex, unlocked
Unlocked == [writer |-> 0, locked |-> FALSE, readers |-> {}]

Lock(m)    == <<"Lock", m>>
Unlock(m)  == <<"Unlock", m>>
RLock(m)   == <<"RLock", m>>
RUnlock(m) == <<"RUnlock", m>>

\* The lock calls of one method, in program order, for every path through it.
\* A method of the ComponentManager that only reads, and one that writes
CmReadLocks  == <<RLock("cm"), RUnlock("cm")>>
CmWriteLocks == <<Lock("cm"), Unlock("cm")>>

\* ComponentManager.GetComponentType: the kind is found, or it is registered
GetComponentTypeLocks == {CmReadLocks, CmReadLocks \o CmWriteLocks}

\* ComponentManager.AddComponent: GetComponentType, then the store
CmAddComponentLocks == {g \o CmWriteLocks : g \in GetComponentTypeLocks}

CreateEntityLocks == {<<Lock("em"), Unlock("em")>>}

\* DestroyEntity that calls RemoveAllComponents first and locks em.mu
\* inside it.
DestroyEntityLocksCmFirst ==
  {<<Lock("em"), Unlock("em")>>,
   <<Lock("cm"), Lock("em"), Unlock("em"), Unlock("cm")>>}

\* DestroyEntity: the id is absent, or RemoveAllComponents runs under em.mu
DestroyEntityLocks ==
  {<<Lock("em"), Unlock("em")>>,
   <<Lock("em")>> \o CmWriteLocks \o <<Unlock("em")>>}

RECURSIVE Times(_, _)
Times(s, n) == IF n = 0 THEN <<>> ELSE s \o Times(s, n - 1)

\* EntityManager.Clear: RemoveAllComponents once per entity, under em.mu
EntityManagerClearLocks ==
  {<<Lock("em")>> \o Times(CmWriteLocks, n) \o <<Unlock("em")>> :
     n \in 0..MaxHolders}

\* EntityManager.AddComponent: ErrEntityNotFound; an error of
\* cm.AddComponent (a nil component takes no lock there); success, with
\* GetComponentType called again under em.mu, where it finds the kind that
\* cm.AddComponent has registered
AddComponentLocks ==
  LET lookup == <<Lock("em"), Unlock("em")>>
  IN {lookup}
       \cup {lookup \o a : a \in CmAddComponentLocks}
       \cup {lookup \o a \o <<Lock("em")>> \o CmReadLocks \o <<Unlock("em")>> :
               a \in CmAddComponentLocks}

\* EntityManager.RemoveComponent: ErrEntityNotFound, ErrComponentNotFound,
\* success
RemoveComponentLocks ==
  LET lookup == <<Lock("em"), Unlock("em")>>
  IN {lookup, lookup \o CmWriteLocks, lookup \o CmWriteLocks \o lookup}

\* GetEntitiesWithComponents, HasComponent, Exists, GetAllEntities and Count
\* read under em.mu; GetComponent reads under cm.mu
QueryLocks == {<<RLock("em"), RUnlock("em")>>, CmReadLocks}

\* SystemManager.Update copies the list under sm.mu and has released it when
\* it calls the systems: what a system calls, it calls holding no mutex
SystemManagerUpdateLocks == {<<RLock("sm"), RUnlock("sm")>>}

\* AddSystem, RemoveSystem, SystemManager.Clear
SystemManagerWriteLocks == {<<Lock("sm"), Unlock("sm")>>}

Calls ==
  CreateEntityLocks \cup DestroyEntityLocks \cup EntityManagerClearLocks
    \cup AddComponentLocks \cup RemoveComponentLocks \cup QueryLocks
    \cup GetComponentTypeLocks \cup {CmWriteLocks}
    \cup SystemManagerUpdateLocks \cup SystemManagerWriteLocks

LockFrame == UNCHANGED <<ecsVars, sysVars, qryVars, busVars, resVars>>

\* A goroutine that holds nothing enters a method.
Call(th, s) ==
  /\ todo[th] = <<>>
  /\ todo' = [todo EXCEPT ![th] = s]
  /\ UNCHANGED <<mu, held>>
  /\ LockFrame

\* The lock call a goroutine is at
At(th) == Head(todo[th])

\* RWMutex.Lock, first half: the writer takes rw.w and announces itself;
\* from now on RLock blocks
LockAnnounce(th) ==
  /\ todo[th] # <<>>
  /\ At(th)[1] = "Lock"
  /\ mu[At(th)[2]].writer = 0
  /\ mu' = [mu EXCEPT ![At(th)[2]].writer = th]
  /\ UNCHANGED <<held, todo>>
  /\ LockFrame

\* RWMutex.Lock, second half: the readers have left
LockAcquire(th) ==
  /\ todo[th] # <<>>
  /\ At(th)[1] = "Lock"
  /\ mu[At(th)[2]].writer = th
  /\ ~mu[At(th)[2]].locked
  /\ mu[At(th)[2]].readers = {}
  /\ mu' = [mu EXCEPT ![At(th)[2]].locked = TRUE]
  /\ held' = [held EXCEPT ![th] = Append(held[th], At(th)[2])]
  /\ todo' = [todo EXCEPT ![th] = Tail(todo[th])]
  /\ LockFrame

\* RWMutex.RLock: blocks while a writer holds the mutex or waits for it
RLockAcquire(th) ==
  /\ todo[th] # <<>>
  /\ At(th)[1] = "RLock"
  /\ mu[At(th)[2]].writer = 0
  /\ mu' = [mu EXCEPT ![At(th)[2]].readers = @ \cup {th}]
  /\ held' = [held EXCEPT ![th] = Append(held[th], At(th)[2])]
  /\ todo' = [todo EXCEPT ![th] = Tail(todo[th])]
  /\ LockFrame

\* The mutexes a goroutine holds, without the one taken last
Released(th) == SubSeq(held[th], 1, Len(held[th]) - 1)

\* RWMutex.Unlock
UnlockRelease(th) ==
  /\ todo[th] # <<>>
  /\ At(th)[1] = "Unlock"
  /\ mu' = [mu EXCEPT ![At(th)[2]] = Unlocked]
  /\ held' = [held EXCEPT ![th] = Released(th)]
  /\ todo' = [todo EXCEPT ![th] = Tail(todo[th])]
  /\ LockFrame

\* RWMutex.RUnlock
RUnlockRelease(th) ==
  /\ todo[th] # <<>>
  /\ At(th)[1] = "RUnlock"
  /\ mu' = [mu EXCEPT ![At(th)[2]].readers = @ \ {th}]
  /\ held' = [held EXCEPT ![th] = Released(th)]
  /\ todo' = [todo EXCEPT ![th] = Tail(todo[th])]
  /\ LockFrame

\* The next lock or unlock call of a goroutine
LockStep(th) ==
  \/ LockAnnounce(th)
  \/ LockAcquire(th)
  \/ RLockAcquire(th)
  \/ UnlockRelease(th)
  \/ RUnlockRelease(th)

\* --------------------------------------------------------------- EventBus
\* One event type is in use, and no handler cancels an event.
BusFrame == UNCHANGED <<ecsVars, sysVars, qryVars, lockVars, resVars>>

\* sortListenersByPriority: a bubble sort that exchanges two neighbours when
\* the first has the smaller priority, so the larger priority comes first and
\* listeners of equal priority keep their order. The priorities in use are
\* 0 and 1.
SortListenersByPriority(q) ==
  SelectSeq(q, LAMBDA l : l.Priority = 1)
    \o SelectSeq(q, LAMBDA l : l.Priority = 0)

\* removeListenerByID: the first listener with that ID is cut out
RemoveListenerByID(q, id) ==
  IF \E i \in 1..Len(q) : q[i].ID = id
  THEN RemoveAt(q, CHOOSE i \in 1..Len(q) :
                     q[i].ID = id /\ \A j \in 1..(i - 1) : q[j].ID # id)
  ELSE q

RECURSIVE RemoveListeners(_, _)
\* processEvent, lines 583-587: removeListenerByID for every collected ID
RemoveListeners(q, ids) ==
  IF ids = <<>> THEN q
  ELSE RemoveListeners(RemoveListenerByID(q, Head(ids)), Tail(ids))

BusStart ==
  /\ busRunning' = TRUE
  /\ BusFrame
  /\ UNCHANGED <<listeners, busNextID, queue, ppc, listenersCopy, lidx,
                 listenersToRemove, handled>>

\* Emit: the event goes into the queue of a started bus unless that is full
Emit ==
  /\ queue' = IF busRunning /\ queue < MaxQueue THEN queue + 1 ELSE queue
  /\ BusFrame
  /\ UNCHANGED <<listeners, busNextID, busRunning, ppc, listenersCopy, lidx,
                 listenersToRemove, handled>>

\* Subscribe is SubscribeWithPriority(eventType, handler, 0)
SubscribeWithPriority(prio) ==
  /\ busNextID < MaxSubs
  /\ busNextID' = busNextID + 1
  /\ listeners' = Append(listeners,
        [ID |-> busNextID + 1, Priority |-> prio, Once |-> FALSE])
  /\ BusFrame
  /\ UNCHANGED <<busRunning, queue, ppc, listenersCopy, lidx,
                 listenersToRemove, handled>>

SubscribeOnce ==
  /\ busNextID < MaxSubs
  /\ busNextID' = busNextID + 1
  /\ listeners' = Append(listeners,
        [ID |-> busNextID + 1, Priority |-> 0, Once |-> TRUE])
  /\ BusFrame
  /\ UNCHANGED <<busRunning, queue, ppc, listenersCopy, lidx,
                 listenersToRemove, handled>>

\* worker: a worker goroutine of a started bus takes an event from the queue
WorkerReceive(th) ==
  /\ busRunning
  /\ ppc[th] = "idle"
  /\ queue > 0
  /\ queue' = queue - 1
  /\ ppc' = [ppc EXCEPT ![th] = "received"]
  /\ BusFrame
  /\ UNCHANGED <<listeners, busNextID, busRunning, listenersCopy, lidx,
                 listenersToRemove, handled>>

\* processEvent, lines 552-566: the copy taken under the read lock, sorted
ProcessEvent(th) ==
  /\ IF listeners = <<>>
     THEN /\ ppc' = [ppc EXCEPT ![th] = "idle"]
          /\ UNCHANGED <<listenersCopy, lidx>>
     ELSE /\ ppc' = [ppc EXCEPT ![th] = "loop"]
          /\ listenersCopy' = [listenersCopy EXCEPT ![th] =
                                 SortListenersByPriority(listeners)]
          /\ lidx' = [lidx EXCEPT ![th] = 1]
  /\ BusFrame
  /\ UNCHANGED <<listeners, busNextID, busRunning, queue, listenersToRemove,
                 handled>>

\* worker, line 546: the worker processes the event it has taken
WorkerProcessEvent(th) == ppc[th] = "received" /\ ProcessEvent(th)

\* EmitSync: the caller processes the event itself
EmitSync(th) == ppc[th] = "idle" /\ ProcessEvent(th)

\* The smaller of two numbers
Min(a, b) == IF a < b THEN a ELSE b

\* processEvent, lines 569-580: one iteration of the loop over the copy, or
\* its end
ProcessEventLoop(th) ==
  /\ ppc[th] = "loop"
  /\ IF lidx[th] > Len(listenersCopy[th])
     THEN /\ ppc' = [ppc EXCEPT ![th] =
                       IF listenersToRemove[th] = <<>> THEN "idle"
                       ELSE "remove"]
          /\ listenersCopy' = [listenersCopy EXCEPT ![th] = <<>>]
          /\ lidx' = [lidx EXCEPT ![th] = 0]
          /\ UNCHANGED <<listenersToRemove, handled>>
     ELSE LET listener == listenersCopy[th][lidx[th]]
          IN /\ handled' = [handled EXCEPT ![listener.ID] =
                              Min(@ + 1, MaxHandled)]
             /\ listenersToRemove' = [listenersToRemove EXCEPT ![th] =
                  IF listener.Once THEN Append(@, listener.ID) ELSE @]
             /\ lidx' = [lidx EXCEPT ![th] = @ + 1]
             /\ UNCHANGED <<ppc, listenersCopy>>
  /\ BusFrame
  /\ UNCHANGED <<listeners, busNextID, busRunning, queue>>

\* processEvent, lines 583-589: the one-time listeners are removed under the
\* write lock
ProcessEventRemove(th) ==
  /\ ppc[th] = "remove"
  /\ listeners' = RemoveListeners(listeners, listenersToRemove[th])
  /\ listenersToRemove' = [listenersToRemove EXCEPT ![th] = <<>>]
  /\ ppc' = [ppc EXCEPT ![th] = "idle"]
  /\ BusFrame
  /\ UNCHANGED <<busNextID, busRunning, queue, listenersCopy, lidx, handled>>

\* -------------------------------------------------------- ResourceManager
\* One path, of one resource type, is in use.
ResFrame == UNCHANGED <<ecsVars, sysVars, qryVars, lockVars, busVars>>

RegisterLoader ==
  /\ loaders' = TRUE
  /\ ResFrame
  /\ UNCHANGED <<resources, cache, resState, refCount, lpc, resource,
                 loadSyncs, returned, loadCalls>>

\* Resource.IsLoaded of the Resource the cache leads to
CacheHit ==
  /\ cache
  /\ resources # NoRes
  /\ resState[resources] = "loaded"

\* LoadSync, lines 201-209: the cache test under rm.mu and, on a hit, AddRef
\* and the return of the cached id
LoadSyncCheck(th) ==
  /\ lpc[th] = "idle"
  /\ loadSyncs < MaxLoads
  /\ loadSyncs' = loadSyncs + 1
  /\ IF CacheHit
     THEN /\ refCount' = [refCount EXCEPT ![resources] = @ + 1]
          /\ returned' = returned + 1
          /\ UNCHANGED lpc
     ELSE /\ lpc' = [lpc EXCEPT ![th] = "loader"]
          /\ UNCHANGED <<refCount, returned>>
  /\ ResFrame
  /\ UNCHANGED <<resources, cache, loaders, resState, resource, loadCalls>>

\* LoadSync, lines 212-218: the loader of the type, or the error return
LoadSyncLoader(th) ==
  /\ lpc[th] = "loader"
  /\ lpc' = [lpc EXCEPT ![th] = IF loaders THEN "store" ELSE "idle"]
  /\ ResFrame
  /\ UNCHANGED <<resources, cache, loaders, resState, refCount, resource,
                 loadSyncs, returned, loadCalls>>

\* A Resource that has not been allocated yet
NewResource == CHOOSE r \in Resources : resState[r] = "none"

\* LoadSync, lines 221-233: a new Resource in state Loading with RefCount 1
\* is stored under the id and the path
LoadSyncStore(th) ==
  /\ lpc[th] = "store"
  /\ resState' = [resState EXCEPT ![NewResource] = "loading"]
  /\ refCount' = [refCount EXCEPT ![NewResource] = 1]
  /\ resource' = [resource EXCEPT ![th] = NewResource]
  /\ resources' = NewResource
  /\ cache' = TRUE
  /\ lpc' = [lpc EXCEPT ![th] = "load"]
  /\ ResFrame
  /\ UNCHANGED <<loaders, loadSyncs, returned, loadCalls>>

\* LoadSync, lines 236-249: loader.Load is called and the Resource becomes
\* Loaded, or Error with the return of the error
LoadSyncLoad(th, ok) ==
  /\ lpc[th] = "load"
  /\ loadCalls' = loadCalls + 1
  /\ resState' = [resState EXCEPT ![resource[th]] =
                    IF ok THEN "loaded" ELSE "error"]
  /\ lpc' = [lpc EXCEPT ![th] = IF ok THEN "account" ELSE "idle"]
  /\ resource' = IF ok THEN resource ELSE [resource EXCEPT ![th] = NoRes]
  /\ ResFrame
  /\ UNCHANGED <<resources, cache, loaders, refCount, loadSyncs, returned>>

\* LoadSync, lines 251-258: currentCacheSize grows by Resource.Size, which
\* nothing ever sets, so it stays 0 and checkCacheSize unloads nothing; the
\* call returns the id and a nil error
LoadSyncReturn(th) ==
  /\ lpc[th] = "account"
  /\ returned' = returned + 1
  /\ lpc' = [lpc EXCEPT ![th] = "idle"]
  /\ resource' = [resource EXCEPT ![th] = NoRes]
  /\ ResFrame
  /\ UNCHANGED <<resources, cache, loaders, resState, refCount, loadSyncs,
                 loadCalls>>

\* -------------------------------------------- clearing and tearing down
\* ComponentManager.Clear that forgets the kinds as well.
ComponentManagerClearDropsRegistry(th) ==
  /\ Idle(th)
  /\ UNCHANGED <<sysVars, qryVars, lockVars, busVars, resVars>>
  /\ components' = EmptyMap
  /\ typeRegistry' = EmptyMap
  /\ nextType' = 0
  /\ UNCHANGED <<nextID, entities, freeIDs, entityPool, componentMask, pc,
                 callId, callComp, callType, entity>>

\* ComponentManager.Clear: every storage map is replaced by an empty one,
\* under cm.mu; typeRegistry and nextType are not touched
ComponentManagerClear(th) ==
  /\ Idle(th)
  /\ UNCHANGED <<sysVars, qryVars, lockVars, busVars, resVars>>
  /\ components' = [t \in DOMAIN components |-> EmptyMap]
  /\ UNCHANGED <<nextID, entities, freeIDs, entityPool, componentMask,
                 typeRegistry, nextType, pc, callId, callComp, callType,
                 entity>>

\* w.entityManager.Clear() that replaces the table and leaves the storage of
\* the ComponentManager alone.
WorldClearEntitiesKeepsComponents(th, next) ==
  /\ UNCHANGED components
  /\ componentMask' = [o \in Objs |->
        IF o \in {entities[i] : i \in Alive} THEN {} ELSE componentMask[o]]
  /\ entityPool' = entityPool \cup {entities[i] : i \in Alive}
  /\ entities' = EmptyMap
  /\ freeIDs' = <<>>
  /\ pc' = [pc EXCEPT ![th] = next]
  /\ UNCHANGED <<nextID, typeRegistry, nextType, callId, callComp, callType,
                 entity>>

\* w.entityManager.Clear() as World.Clear and World.Destroy call it: the
\* critical section of EntityManager.Clear, then on to w.archetypeManager
WorldClearEntities(th, next) ==
  /\ components' = RemoveAllComponents(Alive)
  /\ componentMask' = [o \in Objs |->
        IF o \in {entities[i] : i \in Alive} THEN {} ELSE componentMask[o]]
  /\ entityPool' = entityPool \cup {entities[i] : i \in Alive}
  /\ entities' = EmptyMap
  /\ freeIDs' = <<>>
  /\ pc' = [pc EXCEPT ![th] = next]
  /\ UNCHANGED <<nextID, typeRegistry, nextType, callId, callComp, callType,
                 entity>>

\* World.Clear, first statement
WorldClearCall(th) ==
  /\ Idle(th)
  /\ WorldClearEntities(th, "ClearArchetypes")
  /\ UNCHANGED <<sysVars, qryVars, lockVars, busVars, resVars>>

\* World.Clear, second statement: w.archetypeManager.Clear(), then return
\* (to the caller, or to World.Destroy, which returns in turn)
WorldClearArchetypes(th) ==
  /\ pc[th] \in {"ClearArchetypes", "DestroyArchetypes"}
  /\ archetypes' = EmptyMap
  /\ Return(th)
  /\ UNCHANGED <<nextID, entities, freeIDs, entityPool, componentMask,
                 components, typeRegistry, nextType>>
  /\ UNCHANGED <<sysVars, lockVars, busVars, resVars, queryMask, result,
                 findMask, found,
                 builderMask, withs>>

\* World.Destroy without its call of Stop.
WorldDestroyCallSkipsStop(th) ==
  /\ Idle(th)
  /\ pc' = [pc EXCEPT ![th] = "DestroySystems"]
  /\ UNCHANGED <<nextID, entities, freeIDs, entityPool, componentMask,
                 components, typeRegistry, nextType, callId, callComp,
                 callType, entity>>
  /\ UNCHANGED <<sysVars, qryVars, lockVars, busVars, resVars>>

\* World.Destroy, first statement: w.Stop()
WorldDestroyCall(th) ==
  /\ Idle(th)
  /\ running' = FALSE
  /\ pc' = [pc EXCEPT ![th] = "DestroySystems"]
  /\ UNCHANGED <<nextID, entities, freeIDs, entityPool, componentMask,
                 components, typeRegistry, nextType, callId, callComp,
                 callType, entity>>
  /\ UNCHANGED <<systems, priority, enabled, paused, upc, snapshot, idx,
                 invoked>>
  /\ UNCHANGED <<qryVars, lockVars, busVars, resVars>>

\* World.Destroy, second statement: w.systemManager.Clear()
WorldDestroySystems(th) ==
  /\ pc[th] = "DestroySystems"
  /\ systems' = <<>>
  /\ pc' = [pc EXCEPT ![th] = "DestroyEntities"]
  /\ UNCHANGED <<nextID, entities, freeIDs, entityPool, componentMask,
                 components, typeRegistry, nextType, callId, callComp,
                 callType, entity>>
  /\ UNCHANGED <<priority, enabled, running, paused, upc, snapshot, idx,
                 invoked>>
  /\ UNCHANGED <<qryVars, lockVars, busVars, resVars>>

\* World.Destroy, third statement: w.Clear(), whose second statement is
\* WorldClearArchetypes again
WorldDestroyEntities(th) ==
  /\ pc[th] = "DestroyEntities"
  /\ WorldClearEntities(th, "DestroyArchetypes")
  /\ UNCHANGED <<sysVars, qryVars, lockVars, busVars, resVars>>

\* ------------------------------------------------------------------- Init
InitEcs ==
  /\ nextID = 1
  /\ entities = EmptyMap
  /\ freeIDs = <<>>
  /\ entityPool = {}
  /\ componentMask = [o \in Objs |-> {}]
  /\ components = EmptyMap
  /\ typeRegistry = EmptyMap
  /\ nextType = 0
  /\ pc = [th \in Threads |-> "idle"]
  /\ callId = [th \in Threads |-> 0]
  /\ callComp = [th \in Threads |-> Nil]
  /\ callType = [th \in Threads |-> NoTok]
  /\ entity = [th \in Threads |-> NoObj]

\* The priority each system is constructed with: 5, 1, 5, 1, ...
PriorityOf(s) == IF s % 2 = 0 THEN 1 ELSE 5

\* NewWorld, NewSystemManager and NewBaseSystem(priority) for every system
InitSys ==
  /\ systems = <<>>
  /\ priority = [s \in Systems |-> PriorityOf(s)]
  /\ enabled = [s \in Systems |-> TRUE]
  /\ running = FALSE
  /\ paused = FALSE
  /\ upc = "idle"
  /\ snapshot = <<>>
  /\ idx = 0
  /\ invoked = <<>>

\* No query made yet; NewArchetypeManager
InitQry ==
  /\ queryMask = {}
  /\ result = <<>>
  /\ archetypes = EmptyMap
  /\ findMask = {}
  /\ found = {}
  /\ builderMask = {}
  /\ withs = <<>>

\* No mutex is held and no call is in progress
InitLock ==
  /\ mu = [m \in Mutexes |-> Unlocked]
  /\ held = [th \in Threads |-> <<>>]
  /\ todo = [th \in Threads |-> <<>>]

\* NewEventBus: no listener, no event, not started
InitBus ==
  /\ listeners = <<>>
  /\ busNextID = 0
  /\ busRunning = FALSE
  /\ queue = 0
  /\ ppc = [th \in Threads |-> "idle"]
  /\ listenersCopy = [th \in Threads |-> <<>>]
  /\ lidx = [th \in Threads |-> 0]
  /\ listenersToRemove = [th \in Threads |-> <<>>]
  /\ handled = [h \in ListenerIDs |-> 0]

\* NewResourceManager: no resource, no loader
InitRes ==
  /\ resources = NoRes
  /\ cache = FALSE
  /\ loaders = FALSE
  /\ resState = [r \in Resources |-> "none"]
  /\ refCount = [r \in Resources |-> 0]
  /\ lpc = [th \in Threads |-> "idle"]
  /\ resource = [th \in Threads |-> NoRes]
  /\ loadSyncs = 0
  /\ returned = 0
  /\ loadCalls = 0

Init == InitEcs /\ InitSys /\ InitQry /\ InitLock /\ InitBus /\ InitRes

\* Registry tokens, and the constants the components' Type() methods return.
Tokens        == 0..(NumKinds - 1)
DeclaredTypes == {DeclaredType(c) : c \in Components}
ConcComponents == {c \in Components : c.kind <= NumConcKinds /\ c.inst = 1}
ConcTokens     == 0..(NumConcKinds - 1)

\* Concurrent use: every goroutine calls into the EntityManager and continues
\* its call in any interleaving with the others.
Next ==
  \/ \E th \in Threads : CreateEntity(th)
  \/ \E th \in Threads, id \in IdInputs : DestroyEntity(th, id)
  \/ \E th \in Threads : EntityManagerClear(th)
  \/ \E th \in Threads, id \in IdInputs, c \in ConcComponents :
       AddComponentLookup(th, id, c)
  \/ \E th \in Threads, id \in IdInputs, t \in ConcTokens :
       RemoveComponentLookup(th, id, t)
  \/ \E th \in Threads : CmGetComponentType(th)
  \/ \E th \in Threads : CmRegister(th)
  \/ \E th \in Threads : CmAddComponent(th)
  \/ \E th \in Threads : AddComponentMask(th)
  \/ \E th \in Threads : CmRemoveComponent(th)
  \/ \E th \in Threads : RemoveComponentMask(th)

Spec == Init /\ [][Next]_vars

\* Entity identity: the goroutines create, destroy and clear entities, each
\* call being one critical section of em.mu.
NextIds ==
  \/ \E th \in Threads : CreateEntity(th)
  \/ \E th \in Threads, id \in IdInputs : DestroyEntity(th, id)
  \/ \E th \in Threads : EntityManagerClear(th)

SpecIds == Init /\ [][NextIds]_vars

\* Sequential use: one goroutine, every kind, nil components, and both
\* registry tokens and declared Type() constants as componentType arguments.
NextSeq ==
  \/ CreateEntity(1)
  \/ \E id \in IdInputs : DestroyEntity(1, id)
  \/ EntityManagerClear(1)
  \/ \E id \in IdInputs, c \in Components \cup {Nil} : AddComponentLookup(1, id, c)
  \/ \E id \in IdInputs, t \in Tokens \cup DeclaredTypes :
       RemoveComponentLookup(1, id, t)
  \/ CmGetComponentType(1)
  \/ CmRegister(1)
  \/ CmAddComponent(1)
  \/ AddComponentMask(1)
  \/ CmRemoveComponent(1)
  \/ RemoveComponentMask(1)

SpecSeq == Init /\ [][NextSeq]_vars

\* Queries: one goroutine builds a few entities with components of every kind,
\* the kinds registered in the order 1, 2, 3, ... of their first use, and asks
\* for the entities that have a set of them.
QueryComponents == {c \in Components : c.inst = 1}
Masks == SUBSET Tokens

NextQuery ==
  \/ Cardinality(Alive) < MaxQueried /\ CreateEntity(1)
  \/ \E id \in IdInputs : DestroyEntity(1, id)
  \/ EntityManagerClear(1)
  \/ \E id \in IdInputs, c \in QueryComponents :
       c.kind <= nextType + 1 /\ AddComponentLookup(1, id, c)
  \/ \E id \in IdInputs, t \in Tokens : RemoveComponentLookup(1, id, t)
  \/ CmGetComponentType(1)
  \/ CmRegister(1)
  \/ CmAddComponent(1)
  \/ AddComponentMask(1)
  \/ CmRemoveComponent(1)
  \/ RemoveComponentMask(1)
  \/ \E m \in Masks : GetEntitiesWithComponents(1, m)
  \/ QueryReturn(1)

SpecQuery == Init /\ [][NextQuery]_vars

\* Archetypes are created for masks, looked up by mask and cleared.
NextArch ==
  \/ \E m \in Masks : GetOrCreateArchetype(m)
  \/ \E m \in Masks : FindArchetypes(m)
  \/ ArchetypeManagerClear

SpecArch == Init /\ [][NextArch]_vars

\* Payloads: one goroutine adds components of every value, and removes them,
\* on one entity at a time, the kinds registered in the order of first use.
PayComponents == {c \in Components : c.kind <= NumConcKinds}

NextPay ==
  \/ Cardinality(Alive) < MaxHolders /\ CreateEntity(1)
  \/ \E id \in IdInputs : DestroyEntity(1, id)
  \/ EntityManagerClear(1)
  \/ \E id \in IdInputs, c \in PayComponents \cup {Nil} :
       (c = Nil \/ c.kind <= nextType + 1) /\ AddComponentLookup(1, id, c)
  \/ \E id \in IdInputs, t \in ConcTokens : RemoveComponentLookup(1, id, t)
  \/ CmGetComponentType(1)
  \/ CmRegister(1)
  \/ CmAddComponent(1)
  \/ AddComponentMask(1)
  \/ CmRemoveComponent(1)
  \/ RemoveComponentMask(1)

SpecPay == Init /\ [][NextPay]_vars

\* The registry: the goroutines register kinds, look their tokens up and add
\* components to an entity, all at the same time.
NextReg ==
  \/ \E th \in Threads : Cardinality(Alive) < MaxHolders /\ CreateEntity(th)
  \/ \E th \in Threads, k \in Kinds : RegisterComponentTypeCall(th, k)
  \/ \E th \in Threads, k \in Kinds : GetComponentTypeCall(th, k)
  \/ \E th \in Threads : GetComponentTypeRegister(th)
  \/ \E th \in Threads, id \in IdInputs, c \in ConcComponents :
       AddComponentLookup(th, id, c)
  \/ \E th \in Threads : CmGetComponentType(th)
  \/ \E th \in Threads : CmRegister(th)
  \/ \E th \in Threads : CmAddComponent(th)
  \/ \E th \in Threads : AddComponentMask(th)

SpecReg == Init /\ [][NextReg]_vars

\* Many kinds: one goroutine registers kinds, in the order 1, 2, 3, ... of
\* their first use, up to one more than the mask has bits, and adds and
\* removes components of the two kinds whose tokens are the last mask bit and
\* the first token past it.
CapComponents == {[kind |-> k, inst |-> 1] : k \in {MaskWidth, MaskWidth + 1}}
CapTokens     == {MaskWidth - 1, MaskWidth}

NextCap ==
  \/ \E k \in CapKinds : k <= nextType + 1 /\ RegisterComponentTypeCall(1, k)
  \/ CreateEntity(1)
  \/ \E id \in IdInputs : DestroyEntity(1, id)
  \/ \E id \in IdInputs, c \in CapComponents :
       c.kind <= nextType + 1 /\ AddComponentLookup(1, id, c)
  \/ \E id \in IdInputs, t \in CapTokens : RemoveComponentLookup(1, id, t)
  \/ CmGetComponentType(1)
  \/ CmRegister(1)
  \/ CmAddComponent(1)
  \/ AddComponentMask(1)
  \/ CmRemoveComponent(1)
  \/ RemoveComponentMask(1)

SpecCap == Init /\ [][NextCap]_vars

\* The scheduler: SystemManager.Update runs step by step while systems are
\* added, removed, cleared and toggled, by its systems or by other goroutines.
NextSys ==
  \/ \E s \in Systems : AddSystem(s)
  \/ \E s \in Systems : RemoveSystem(s)
  \/ SystemManagerClear
  \/ \E s \in Systems, b \in BOOLEAN : SetEnabled(s, b)
  \/ SystemManagerUpdateCall
  \/ SystemManagerUpdateCopy
  \/ SystemManagerUpdateLoop

SpecSys == Init /\ [][NextSys]_vars

\* The World lifecycle: the frame driver runs World.Update step by step while
\* systems are added and the world is started, paused, resumed and stopped.
NextWorld ==
  \/ \E s \in Systems : AddSystem(s)
  \/ Start
  \/ Stop
  \/ Pause
  \/ Resume
  \/ WorldUpdateCall
  \/ WorldUpdateCheck
  \/ SystemManagerUpdateCopy
  \/ SystemManagerUpdateLoop

SpecWorld == Init /\ [][NextWorld]_vars

\* ================================================================= claims
Quiescent == \A th \in Threads : pc[th] = "idle"

RegisteredTokens == {typeRegistry[k] : k \in DOMAIN typeRegistry}

\* The mask of an alive entity has bit t set
MaskBit(e, t) == t \in componentMask[entities[e]]

InAddOrRemove(th) ==
  pc[th] \in {"AddGetType", "AddRegister", "AddStore", "AddMask",
              "RemoveStore", "RemoveMask"}

\* C1: whenever no ECS operation is in progress, for every alive entity e and
\* every registered token t, bit t of e's mask is set if and only if the
\* ComponentManager holds a payload for (t, e).
C1_MaskIffPayloadWhenQuiescent ==
  Quiescent =>
    \A e \in Alive, t \in RegisteredTokens : MaskBit(e, t) <=> CmHasComponent(e, t)

\* C2: while an AddComponent or RemoveComponent call on entity e is executing,
\* a reader never finds the payload for (t, e) present while HasComponent(e, t)
\* reports false, nor absent while HasComponent(e, t) reports true.
C2_AtomicToReaders ==
  \A th \in Threads :
    InAddOrRemove(th) /\ callId[th] \in Alive =>
      \A t \in RegisteredTokens :
        (GetComponent(callId[th], t) # Nil) <=> HasComponent(callId[th], t)

\* C3: under any interleaving of CreateEntity, DestroyEntity and Clear calls,
\* CreateEntity never returns an id that is alive at that moment: every
\* CreateEntity call adds one entity to the alive ones instead of replacing one.
C3_CreateReturnsUnusedId ==
  [][\A th \in Threads :
       CreateEntity(th) => Cardinality(Alive') = Cardinality(Alive) + 1]_vars

\* C3 witness: every id handed out so far is alive and the free list is empty,
\* although a record has been returned to the pool: an id was destroyed and
\* CreateEntity has handed it out again.
C3_Witness ==
  /\ nextID >= 3
  /\ Alive = 2..nextID
  /\ freeIDs = <<>>
  /\ entityPool # {}

\* C4: in a sequential history, after AddComponent(e, c) returns nil, with t
\* the token the registry assigned to c's kind, HasComponent(e, t) is true,
\* GetComponent(e, t) returns c and bit t of e's mask is set.
C4_AddThenHasAndGet ==
  [][\A th \in Threads, e \in IdInputs, c \in Components \cup CapComponents :
       AddComponentMask(th) /\ callId[th] = e /\ callComp[th] = c =>
         \E t \in 0..MaskWidth :
           /\ typeRegistry'[c.kind] = t
           /\ HasComponent(e, t)'
           /\ GetComponent(e, t)' = c
           /\ MaskBit(e, t)']_vars

\* C5: after World.AddComponent(e, c) returns nil, World.HasComponent(e,
\* c.Type()) is true and World.GetComponent(e, c.Type()) returns c.
C5_FoundUnderDeclaredType ==
  [][\A th \in Threads, e \in IdInputs, c \in Components :
       AddComponentMask(th) /\ callId[th] = e /\ callComp[th] = c =>
         /\ HasComponent(e, DeclaredType(c))'
         /\ GetComponent(e, DeclaredType(c))' = c]_vars

\* C6: no token greater than or equal to the mask width is ever assigned, and
\* no component is ever stored under a token that has no mask bit.
C6_TokensBelowMaskWidth ==
  /\ \A k \in DOMAIN typeRegistry : typeRegistry[k] < MaskWidth
  /\ nextType <= MaskWidth
  /\ \A t \in DOMAIN components : components[t] # EmptyMap => t < MaskWidth

\* The place of s when it is inserted after every system of q that does not
\* run later than it
StableInsert(q, s) ==
  LET n == Cardinality({i \in 1..Len(q) : priority[q[i]] <= priority[s]})
  IN SubSeq(q, 1, n) \o <<s>> \o SubSeq(q, n + 1, Len(q))

\* C7: after any sequence of AddSystem calls, systems with equal priority
\* appear in GetSystems() in the order in which they were added: every
\* AddSystem puts the new system behind the systems of its own priority and
\* keeps the order of the others.
C7_EqualPriorityKeepsInsertionOrder ==
  [][\A s \in Systems : AddSystem(s) => systems' = StableInsert(systems, s)]_vars

\* C8: after any sequence of AddSystem, RemoveSystem and Clear calls the list
\* is sorted in non-decreasing priority, and an Update call never invokes a
\* system with a larger priority number before one with a smaller number.
C8_SortedByPriority == Sorted(systems) /\ Sorted(snapshot) /\ Sorted(invoked)

\* C8 witness: an Update call has invoked two systems of different priority
\* from its copy, and one of them has been removed from the list since.
C8_Witness ==
  /\ upc = "loop"
  /\ Len(snapshot) = 2
  /\ Len(systems) = 1
  /\ Len(invoked) = 2
  /\ priority[invoked[1]] < priority[invoked[2]]

\* C9: one SystemManager.Update call goes through the list it copied once, in
\* order, from the first to the last position, and invokes the system at each
\* position exactly when its Enabled() is true; toggling a system leaves the
\* list as it is.
C9_InvokesEnabledOnceInOrder ==
  [][/\ upc = "copy" /\ upc' # "copy" =>
          upc' = "loop" /\ snapshot' = systems /\ idx' = 1 /\ invoked' = invoked
     /\ upc = "loop" /\ (idx' # idx \/ invoked' # invoked) /\ upc' = "loop" =>
          /\ idx <= Len(snapshot)
          /\ idx' = idx + 1
          /\ snapshot' = snapshot
          /\ invoked' = IF enabled[snapshot[idx]]
                        THEN Append(invoked, snapshot[idx]) ELSE invoked
     /\ upc = "loop" /\ upc' # "loop" =>
          upc' = "done" /\ idx = Len(snapshot) + 1 /\ invoked' = invoked
     /\ upc # "loop" /\ invoked' # invoked => invoked' = <<>>
     /\ enabled' # enabled => systems' = systems]_vars

\* C9 witness: an Update call has reached the end of a list of two systems,
\* has invoked one of them and skipped the other, which is disabled and still
\* in the list.
C9_Witness ==
  /\ upc = "loop"
  /\ idx = Len(snapshot) + 1
  /\ Len(snapshot) = 2
  /\ systems = snapshot
  /\ Len(invoked) = 1
  /\ \E i \in 1..2 : ~enabled[systems[i]] /\ invoked[1] # systems[i]

Running == running /\ ~paused

\* C10: World.Update invokes no system unless the world is Running: a call made
\* in any other state returns without an invocation; a call made while Running
\* goes on to SystemManager.Update, which is the only place a system is invoked.
C10_UpdateOnlyWhileRunning ==
  /\ [](upc = "skipped" => invoked = <<>>)
  /\ [][/\ upc = "check" /\ upc' # "check" =>
             IF Running THEN upc' = "copy" ELSE upc' = "skipped"
        /\ upc # "copy" /\ upc' = "copy" => upc = "check" /\ Running
        /\ upc # "loop" /\ upc' = "loop" => upc = "copy"
        /\ Len(invoked') > Len(invoked) => upc = "loop"]_vars

\* C10 witness: an Update call made while the world is paused has returned
\* without an invocation, although the list holds an enabled system.
C10_Witness ==
  /\ upc = "skipped"
  /\ running /\ paused
  /\ invoked = <<>>
  /\ \E i \in 1..Len(systems) : enabled[systems[i]]

\* The lifecycle state that IsRunning and IsPaused report changes in this step
LifecycleChanges == running' # running \/ paused' # paused

\* C11: the World lifecycle is the machine Created, Running, Paused, Stopped:
\* a lifecycle call changes the state reported by IsRunning and IsPaused only as
\* Start from Created or Stopped to Running, Pause from Running to Paused,
\* Resume from Paused to Running, or Stop from Running or Paused to Stopped.
C11_LifecycleIsFourStateMachine ==
  [][LifecycleChanges =>
       \/ Start /\ ~running /\ running' /\ ~paused'
       \/ Pause /\ Running /\ running' /\ paused'
       \/ Resume /\ running /\ paused /\ running' /\ ~paused'
       \/ Stop /\ running /\ ~running']_vars

\* C12: GetEntitiesWithComponents(m) returns exactly the alive ids whose mask
\* has every bit of m set, each id once; with m = 0 it returns every alive
\* entity, and it never returns an id that is not alive.
C12_QueryReturnsAllBitsMatches ==
  [][\A th \in Threads, m \in Masks :
       pc'[th] = "QueryReturn" /\ GetEntitiesWithComponents(th, m) =>
         /\ {result'[i] : i \in 1..Len(result')} =
               {e \in IdInputs : Exists(e) /\ m \subseteq componentMask[entities[e]]}
         /\ \A i, j \in 1..Len(result') : result'[i] = result'[j] => i = j
         /\ \A i \in 1..Len(result') : Exists(result'[i])
         /\ m = {} => Len(result') = Cardinality(Alive)]_vars

\* C12 witness: a query for two bits has returned one entity and left out an
\* alive entity that has only one of the bits, while an id handed out earlier
\* is no longer alive.
C12_Witness ==
  /\ \E th \in Threads : pc[th] = "QueryReturn"
  /\ Cardinality(queryMask) = 2
  /\ Len(result) = 1
  /\ \E e \in Alive : /\ componentMask[entities[e]] \cap queryMask # {}
                      /\ e # result[1]
  /\ \E e \in 2..nextID : ~Exists(e)

\* C13: FindArchetypes(requiredMask) returns exactly the archetypes whose
\* stored mask is a superset of requiredMask, those with
\* (archetypeMask & requiredMask) == requiredMask.
C13_FindReturnsSupersets ==
  [][\A m \in Masks :
       FindArchetypes(m) =>
         found' = {a \in DOMAIN archetypes : (a \cap m) = m}]_vars

\* Goroutine th is inside AddComponent(e, c) while e holds a component of the
\* kind of c
AddOfHeldKind(th) ==
  /\ pc[th] \in {"AddGetType", "AddRegister", "AddStore"}
  /\ callComp[th] # Nil
  /\ callComp[th].kind \in DOMAIN typeRegistry
  /\ CmHasComponent(callId[th], typeRegistry[callComp[th].kind])

\* C14: AddComponent(e, c2) on an entity that already holds a component of the
\* kind of c2 returns ErrComponentExists and changes nothing: the call goes
\* from the store test back to its caller without reaching the mask update,
\* and the stored payloads, the masks, the registry and the entities stay as
\* they are.
C14_SecondAddIsRejected ==
  [][\A th \in Threads :
       AddOfHeldKind(th) /\ pc'[th] # pc[th] =>
         /\ pc'[th] = IF pc[th] = "AddStore" THEN "idle" ELSE "AddStore"
         /\ UNCHANGED <<components, componentMask, typeRegistry, nextType,
                        nextID, entities, freeIDs, entityPool>>]_vars

\* C14 witness: AddComponent has reached the store test with a component whose
\* kind the entity holds with another value.
C14_Witness ==
  \E th \in Threads :
    /\ pc[th] = "AddStore"
    /\ CmHasComponent(callId[th], callType[th])
    /\ components[callType[th]][callId[th]] # callComp[th]
    /\ callType[th] \in componentMask[entities[callId[th]]]

C16_DestroyDropsEveryPayload ==
  [][\A th \in Threads, e \in IdInputs :
       Exists(e) /\ ~Exists(e)' /\ DestroyEntity(th, e) =>
         \A t \in Tokens \cup DeclaredTypes :
           /\ ~CmHasComponent(e, t)'
           /\ ~HasComponent(e, t)'
           /\ GetComponent(e, t)' = Nil]_vars

\* C16 witness: an entity has been destroyed and its id waits on the free
\* list with no payload left, its record is back in the pool, and another
\* entity still holds its components of two kinds.
C16_Witness ==
  /\ freeIDs # <<>>
  /\ entityPool # {}
  /\ \A t \in Tokens : ~CmHasComponent(freeIDs[1], t)
  /\ \E e \in Alive : \A t \in Tokens : CmHasComponent(e, t) /\ MaskBit(e, t)

\* C17: Exists(e) is true from the moment CreateEntity returns e until
\* DestroyEntity(e) or Clear is called, and false after DestroyEntity(e) returns
\* until a later CreateEntity returns the same id: CreateEntity makes one id
\* exist, DestroyEntity(e) ends the existence of e, and no other call changes
\* what Exists answers.
C17_ExistsFromCreateToDestroy ==
  [][/\ \A th \in Threads :
          CreateEntity(th) =>
            \E e \in IdInputs : ~Exists(e) /\ Exists(e)'
     /\ \A th \in Threads, e \in IdInputs :
          DestroyEntity(th, e) => ~Exists(e)'
     /\ \A e \in IdInputs :
          /\ Exists(e) /\ ~Exists(e)' =>
               \E th \in Threads : DestroyEntity(th, e) \/ EntityManagerClear(th)
          /\ ~Exists(e) /\ Exists(e)' =>
               \E th \in Threads : CreateEntity(th)]_vars

\* C17 witness: id 2 has gone with a Clear and a later id with a
\* DestroyEntity, which put it on the free list; neither exists.
C17_Witness ==
  /\ nextID >= 3
  /\ ~Exists(2)
  /\ Len(freeIDs) = 1
  /\ freeIDs[1] # 2
  /\ ~Exists(freeIDs[1])

\* C18: DestroyEntity on an id that is not alive changes nothing, so a second
\* DestroyEntity(e) leaves the state of the first; DestroyEntity of an alive
\* id ends its existence and leaves it on the free list exactly once.
C18_DestroyIsIdempotent ==
  [][\A th \in Threads, e \in IdInputs :
       DestroyEntity(th, e) =>
         IF Exists(e)
         THEN ~Exists(e)' /\ Count(freeIDs', e) = 1
         ELSE UNCHANGED vars]_vars

\* C18 witness: two ids have been destroyed one after the other; each is on
\* the free list once, and a DestroyEntity of either finds it not alive.
C18_Witness ==
  /\ Len(freeIDs) = 2
  /\ freeIDs[1] # freeIDs[2]
  /\ ~Exists(freeIDs[1]) /\ ~Exists(freeIDs[2])

\* C19: CreateEntity returns an id taken from the free list, and removes it
\* from the list, whenever the list is non-empty; only with an empty list does
\* it allocate a fresh id, and a fresh id is greater than every id allocated
\* before it, also after Clear: the counter never goes back and no alive or
\* free id is above it.
C19_RecycleFirstThenFreshAbove ==
  /\ [](\A e \in Alive \cup {freeIDs[i] : i \in 1..Len(freeIDs)} : e <= nextID)
  /\ [][/\ nextID' >= nextID
        /\ \A th \in Threads :
             CreateEntity(th) =>
               \E e \in IdInputs :
                 /\ Alive' = Alive \cup {e} /\ e \notin Alive
                 /\ IF freeIDs # <<>>
                    THEN /\ e = freeIDs[Len(freeIDs)]
                         /\ freeIDs' = SubSeq(freeIDs, 1, Len(freeIDs) - 1)
                         /\ nextID' = nextID
                    ELSE /\ e > nextID
                         /\ nextID' = e
                         /\ freeIDs' = freeIDs]_vars

\* C19 witness: after a Clear, with the free list empty, CreateEntity has
\* allocated a fresh id above the ids handed out before the Clear.
C19_Witness ==
  /\ nextID >= 3
  /\ Alive = {nextID}
  /\ freeIDs = <<>>
  /\ entityPool # {}

\* C20: registering the same kind more than once, also by two goroutines that
\* make the first RegisterComponentType, GetComponentType or AddComponent of
\* the kind at the same time, always yields the same token, and the kind
\* consumes exactly one token: a registered kind keeps its token, every
\* goroutine works with the token the registry holds for its kind, and as many
\* tokens are used up as kinds are registered.
C20_SameKindSameToken ==
  /\ [](/\ nextType = Cardinality(DOMAIN typeRegistry)
        /\ \A th \in Threads :
             pc[th] \in {"AddStore", "AddMask"} =>
               /\ callComp[th].kind \in DOMAIN typeRegistry
               /\ callType[th] = typeRegistry[callComp[th].kind])
  /\ [][\A k \in DOMAIN typeRegistry :
          k \in DOMAIN typeRegistry' /\ typeRegistry'[k] = typeRegistry[k]]_vars

\* C20 witness: two goroutines found the same kind unregistered; one has
\* registered it since and the other is about to call RegisterComponentType.
C20_Witness ==
  \E th, ot \in Threads :
    /\ pc[th] \in {"AddRegister", "GetTypeRegister"}
    /\ pc[ot] = "AddStore"
    /\ callComp[th].kind = callComp[ot].kind
    /\ callComp[th].kind \in DOMAIN typeRegistry

\* ------------------------------------------------------------------- C21
\* One goroutine registers and looks up the kinds in any order, adds
\* components of the first NumConcKinds kinds and removes, destroys, clears
\* and tears down in between.
NextTok ==
  \/ Cardinality(Alive) < MaxHolders /\ CreateEntity(1)
  \/ \E id \in IdInputs : DestroyEntity(1, id)
  \/ EntityManagerClear(1)
  \/ ComponentManagerClear(1)
  \/ \E k \in Kinds : RegisterComponentTypeCall(1, k)
  \/ \E k \in Kinds : GetComponentTypeCall(1, k)
  \/ GetComponentTypeRegister(1)
  \/ \E id \in IdInputs, c \in ConcComponents : AddComponentLookup(1, id, c)
  \/ \E id \in IdInputs, t \in Tokens : RemoveComponentLookup(1, id, t)
  \/ CmGetComponentType(1)
  \/ CmRegister(1)
  \/ CmAddComponent(1)
  \/ AddComponentMask(1)
  \/ CmRemoveComponent(1)
  \/ RemoveComponentMask(1)
  \/ WorldClearCall(1)
  \/ WorldClearArchetypes(1)
  \/ WorldDestroyCall(1)
  \/ WorldDestroySystems(1)
  \/ WorldDestroyEntities(1)

SpecTok == Init /\ [][NextTok]_vars

\* C21: the tokens handed out so far are exactly 0, 1, ..., nextType - 1, no
\* two kinds hold the same token, and no step (a removal, a destruction, any
\* of the Clear methods and World.Destroy included) changes or drops the token
\* of a registered kind; a kind that becomes registered gets the number of
\* kinds registered before it.
C21_TokensInOrderAndPermanent ==
  /\ [](/\ {typeRegistry[k] : k \in DOMAIN typeRegistry} = 0..(nextType - 1)
        /\ \A k, l \in DOMAIN typeRegistry :
             typeRegistry[k] = typeRegistry[l] => k = l)
  /\ [][/\ \A k \in DOMAIN typeRegistry :
             k \in DOMAIN typeRegistry' /\ typeRegistry'[k] = typeRegistry[k]
        /\ \A k \in DOMAIN typeRegistry' \ DOMAIN typeRegistry :
             typeRegistry'[k] = Cardinality(DOMAIN typeRegistry)]_vars

\* C21 witness: kind 2 was used first and kind 1 second, an entity has come
\* and gone, the storage is empty again and World.Destroy is about to finish.
C21_Witness ==
  /\ DOMAIN typeRegistry = {1, 2}
  /\ typeRegistry[2] = 0
  /\ typeRegistry[1] = 1
  /\ nextID > 1
  /\ Alive = {}
  /\ \A t \in DOMAIN components : components[t] = EmptyMap
  /\ pc[1] = "DestroyArchetypes"
  /\ systems = <<>>

\* ------------------------------------------------------------------- C22
\* C22: no step of a GetComponentType call changes the type registry, the
\* next-token counter or the component storage, whether the kind is
\* registered or not.
C22_GetComponentTypeReadsOnly ==
  [][((\E th \in Threads, k \in Kinds : GetComponentTypeCall(th, k))
       \/ (\E th \in Threads : GetComponentTypeRegister(th)))
     => UNCHANGED <<typeRegistry, nextType, components>>]_vars

\* ------------------------------------------------------------------- C23
\* One goroutine creates and destroys entities and calls AddComponent and
\* RemoveComponent with every id, alive or not.
NextGone ==
  \/ Cardinality(Alive) < MaxHolders /\ CreateEntity(1)
  \/ \E id \in IdInputs : DestroyEntity(1, id)
  \/ \E id \in IdInputs, c \in ConcComponents \cup {Nil} :
       AddComponentLookup(1, id, c)
  \/ \E id \in IdInputs, t \in ConcTokens : RemoveComponentLookup(1, id, t)
  \/ CmGetComponentType(1)
  \/ CmRegister(1)
  \/ CmAddComponent(1)
  \/ AddComponentMask(1)
  \/ CmRemoveComponent(1)
  \/ RemoveComponentMask(1)

SpecGone == Init /\ [][NextGone]_vars

\* C23: AddComponent(id, c) and RemoveComponent(id, t) with an id that is not
\* alive return at once (ErrEntityNotFound is the only return before the
\* call leaves "idle") and change neither the storage, the registry, the
\* token counter, any mask nor the entity table.
C23_NotAliveChangesNothing ==
  [][\A th \in Threads, id \in IdInputs :
       (~Exists(id)
          /\ \/ \E c \in ConcComponents \cup {Nil} :
                  AddComponentLookup(th, id, c)
             \/ \E t \in ConcTokens : RemoveComponentLookup(th, id, t))
       => /\ pc'[th] = "idle"
          /\ UNCHANGED <<components, typeRegistry, nextType, componentMask,
                         entities, freeIDs, nextID>>]_vars

\* C23 witness: an id was destroyed after it held a component, another id
\* was never created, and the calls are open to the goroutine.
C23_Witness ==
  /\ \E id \in 2..nextID : ~Exists(id)
  /\ \E id \in IdInputs : id > nextID
  /\ nextType > 0
  /\ Idle(1)

\* ------------------------------------------------------------------- C24
\* The goroutines enter the methods of the EntityManager, the
\* ComponentManager and the SystemManager at any time and make their lock
\* calls one at a time.
NextLock ==
  \/ \E th \in Threads, s \in Calls : Call(th, s)
  \/ \E th \in Threads : LockStep(th)

\* A goroutine that can take a mutex again and again does take it in the end
\* (sync.Mutex hands a starving waiter the lock; a blocked reader runs when
\* the writer unlocks), and one that holds a mutex goes on to its unlock.
SpecLock ==
  Init /\ [][NextLock]_vars /\ \A th \in Threads : SF_vars(LockStep(th))

\* C24: a goroutine that holds em.mu and cm.mu together took em.mu first;
\* as long as a call is in progress some goroutine can make its next lock
\* call (no deadlock); and every call that was entered returns: no goroutine
\* stays inside a call for ever.
C24_EmBeforeCmAndEveryCallReturns ==
  /\ [](\A th \in Threads : \A i, j \in 1..Len(held[th]) :
          (held[th][i] = "em" /\ held[th][j] = "cm") => i < j)
  /\ []((\E th \in Threads : todo[th] # <<>>)
          => \E th \in Threads : ENABLED LockStep(th))
  /\ \A th \in Threads : []<>(todo[th] = <<>>)

\* C24 witness: one goroutine holds em.mu and cm.mu, a second one is inside
\* AddComponent and blocked at cm.mu, holding nothing.
C24_Witness ==
  \E th, ot \in Threads :
    /\ held[th] = <<"em", "cm">>
    /\ held[ot] = <<>>
    /\ todo[ot] # <<>>
    /\ At(ot) = RLock("cm")
    /\ Len(todo[ot]) > 2

\* ------------------------------------------------------------------- C25
\* C25: Stop changes nothing of an Update call in progress, a call that has
\* passed its state test goes on whatever running says (its next step is
\* always possible, and each iteration invokes the system it is at, if
\* enabled), and a call whose state test runs while the world is stopped
\* returns without an invocation.
C25_StopLetsUpdateFinish ==
  /\ [](upc = "skipped" => invoked = <<>>)
  /\ [](upc \in {"copy", "loop"} =>
          ENABLED (SystemManagerUpdateCopy \/ SystemManagerUpdateLoop))
  /\ [][/\ (running /\ ~running') =>
             UNCHANGED <<upc, snapshot, idx, invoked>>
        /\ (upc = "loop" /\ idx' = idx + 1) =>
             invoked' = IF enabled[snapshot[idx]]
                        THEN Append(invoked, snapshot[idx]) ELSE invoked
        /\ (upc = "check" /\ ~running /\ upc' # "check") =>
             upc' = "skipped"]_vars

\* C25 witness: the world was stopped while the Update call is in its loop,
\* with the first system invoked and the second one still to come.
C25_Witness ==
  /\ ~running
  /\ upc = "loop"
  /\ Len(snapshot) = 2
  /\ idx = 2
  /\ invoked = <<snapshot[1]>>
  /\ enabled[snapshot[2]]

\* ------------------------------------------------------------ C26, C27
\* One caller fills the world (entities, components, systems in the order
\* of their numbers, an archetype), moves it through its lifecycle and calls
\* World.Clear and World.Destroy.
NextTear ==
  \/ Cardinality(Alive) < MaxHolders /\ CreateEntity(1)
  \/ \E id \in IdInputs, c \in ConcComponents : AddComponentLookup(1, id, c)
  \/ CmGetComponentType(1)
  \/ CmRegister(1)
  \/ CmAddComponent(1)
  \/ AddComponentMask(1)
  \/ \E s \in Systems : Idle(1) /\ s = Len(systems) + 1 /\ AddSystem(s)
  \/ Idle(1) /\ GetOrCreateArchetype(ConcTokens)
  \/ Idle(1) /\ Start
  \/ Idle(1) /\ Stop
  \/ Idle(1) /\ Pause
  \/ Idle(1) /\ Resume
  \/ WorldClearCall(1)
  \/ WorldClearArchetypes(1)
  \/ WorldDestroyCall(1)
  \/ WorldDestroySystems(1)
  \/ WorldDestroyEntities(1)

SpecTear == Init /\ [][NextTear]_vars

\* No entity is alive and no storage map holds a payload
Emptied == Alive = {} /\ \A t \in DOMAIN components : components[t] = EmptyMap

NextBuild ==
  \/ \E k \in CapKinds : k <= nextType + 1 /\ RegisterComponentTypeCall(1, k)
  \/ Cardinality(Alive) < MaxHolders /\ CreateEntity(1)
  \/ \E id \in IdInputs, c \in CapComponents :
       c.kind <= nextType + 1 /\ AddComponentLookup(1, id, c)
  \/ CmGetComponentType(1)
  \/ CmRegister(1)
  \/ CmAddComponent(1)
  \/ AddComponentMask(1)
  \/ Idle(1) /\ NewQuery
  \/ \E t \in CapTokens : Idle(1) /\ t < nextType /\ With(t)
  \/ QueryExecute(1)
  \/ QueryReturn(1)

SpecBuild == Init /\ [][NextBuild]_vars

\* The tokens passed to With since NewQuery
WithTokens == {withs[i] : i \in 1..Len(withs)}

\* C28: Execute returns the alive entities that GetEntitiesWithComponents
\* returns for the mask whose bits are exactly the tokens passed to With:
\* the entities whose mask has the bit of every one of these tokens, in
\* whatever order and however often the tokens were passed, and every alive
\* entity when With was not called.
C28_ExecuteEqualsMaskQuery ==
  [][\A th \in Threads :
       QueryExecute(th) =>
         {result'[i] : i \in 1..Len(result')} =
           {id \in Alive : HasAllBits(componentMask[entities[id]], WithTokens)}
    ]_vars

\* ------------------------------------------------------------------- C29
\* The callers of the ArchetypeManager get, create, find and clear archetypes
\* and add and remove ids in the archetypes the manager holds.
ArchMasks == {{}} \cup {{t} : t \in ConcTokens}
ArchIds   == 2..(MaxHolders + 1)

NextArchEnt ==
  \/ \E m \in ArchMasks : GetOrCreateArchetype(m)
  \/ \E m \in ArchMasks, id \in ArchIds : ArchetypeAddEntity(m, id)
  \/ \E m \in ArchMasks, id \in ArchIds : ArchetypeRemoveEntity(m, id)
  \/ \E m \in ArchMasks : FindArchetypes(m)
  \/ ArchetypeManagerClear

SpecArchEnt == Init /\ [][NextArchEnt]_vars

\* C29: a call of GetOrCreateArchetype(m) leaves the manager as it is when it
\* holds an archetype for m, which is the one returned, with the entities it
\* has; otherwise it adds one archetype, for m, with no entities, and changes
\* no other. Calls are atomic under am.mu, so this holds for repeated and for
\* concurrent calls, and the manager maps a mask to one archetype at most.
C29_GetOrCreateIsIdempotent ==
  [][\A m \in ArchMasks :
       GetOrCreateArchetype(m) =>
         /\ m \in DOMAIN archetypes => archetypes' = archetypes
         /\ m \notin DOMAIN archetypes =>
              /\ DOMAIN archetypes' = DOMAIN archetypes \cup {m}
              /\ archetypes'[m] = <<>>
              /\ \A a \in DOMAIN archetypes : archetypes'[a] = archetypes[a]
    ]_vars

\* C29 witness: the manager holds an archetype with an entity for one mask
\* and an archetype for another mask, so that a call for the first mask must
\* return the stored one.
C29_Witness ==
  \E m, n \in DOMAIN archetypes :
    /\ m # n
    /\ archetypes[m] # <<>>
    /\ archetypes[n] = <<>>

\* ------------------------------------------------------------------- C30
\* One caller creates and destroys entities, adds and removes components,
\* and keeps an archetype for the mask of all its kinds by hand.
NextIndex ==
  \/ Cardinality(Alive) < MaxHolders /\ CreateEntity(1)
  \/ \E id \in IdInputs : DestroyEntity(1, id)
  \/ \E id \in IdInputs, c \in ConcComponents : AddComponentLookup(1, id, c)
  \/ \E id \in IdInputs, t \in ConcTokens : RemoveComponentLookup(1, id, t)
  \/ CmGetComponentType(1)
  \/ CmRegister(1)
  \/ CmAddComponent(1)
  \/ AddComponentMask(1)
  \/ CmRemoveComponent(1)
  \/ RemoveComponentMask(1)
  \/ Idle(1) /\ GetOrCreateArchetype(ConcTokens)
  \/ \E id \in ArchIds : Idle(1) /\ ArchetypeAddEntity(ConcTokens, id)
  \/ \E id \in ArchIds : Idle(1) /\ ArchetypeRemoveEntity(ConcTokens, id)

SpecIndex == Init /\ [][NextIndex]_vars

\* A step of CreateEntity, DestroyEntity, AddComponent or RemoveComponent
EntityOrComponentStep ==
  \E th \in Threads :
    \/ CreateEntity(th)
    \/ \E id \in IdInputs : DestroyEntity(th, id)
    \/ \E id \in IdInputs, c \in ConcComponents : AddComponentLookup(th, id, c)
    \/ \E id \in IdInputs, t \in ConcTokens : RemoveComponentLookup(th, id, t)
    \/ CmGetComponentType(th)
    \/ CmRegister(th)
    \/ CmAddComponent(th)
    \/ AddComponentMask(th)
    \/ CmRemoveComponent(th)
    \/ RemoveComponentMask(th)

NextFault ==
  \/ \E s \in Systems : AddSystem(s)
  \/ \E s \in Systems, b \in BOOLEAN : SetEnabled(s, b)
  \/ Start
  \/ WorldUpdateCall
  \/ WorldUpdateCheck
  \/ SystemManagerUpdateCopy
  \/ SystemManagerUpdateLoop
  \/ SystemUpdatePanics
  \/ WorldUpdateReturn

SpecFault == Init /\ [][NextFault]_vars

\* C31: when the Update of a system panics during World.Update, the call ends
\* with that panic at its caller, the system that panicked being the last one
\* invoked: no system later in the order is invoked in that call, and the
\* invocations start again only with the next World.Update call.
C31_FaultAbortsTheFrame ==
  /\ [][SystemUpdatePanics =>
          /\ upc' = "panicked"
          /\ invoked' = Append(invoked, snapshot[idx])]_vars
  /\ [][upc = "panicked" =>
          \/ UNCHANGED <<upc, invoked>>
          \/ upc' = "idle" /\ UNCHANGED invoked]_vars
  /\ [][upc = "idle" /\ invoked' # invoked =>
          upc' = "check" /\ invoked' = <<>>]_vars

\* C31 witness: a World.Update call has ended in a panic after it invoked the
\* first of two enabled systems of the list; the second was not invoked.
C31_Witness ==
  /\ upc = "panicked"
  /\ Len(systems) = 2
  /\ invoked = <<systems[1]>>
  /\ enabled[systems[2]]
  /\ systems[2] # systems[1]

\* ------------------------------------------------------------------- C32
\* Two views: one goroutine builds a few entities, adds and removes
\* components of the kinds in use, and asks the EntityManager for the entities
\* with one mask bit and the ComponentManager for those stored under a token.
NextViews ==
  \/ Cardinality(Alive) < MaxQueried /\ CreateEntity(1)
  \/ \E id \in IdInputs : DestroyEntity(1, id)
  \/ EntityManagerClear(1)
  \/ \E id \in IdInputs, c \in ConcComponents :
       c.kind <= nextType + 1 /\ AddComponentLookup(1, id, c)
  \/ \E id \in IdInputs, t \in ConcTokens : RemoveComponentLookup(1, id, t)
  \/ CmGetComponentType(1)
  \/ CmRegister(1)
  \/ CmAddComponent(1)
  \/ AddComponentMask(1)
  \/ CmRemoveComponent(1)
  \/ RemoveComponentMask(1)
  \/ \E t \in ConcTokens : GetEntitiesWithComponents(1, Shl(t))
  \/ \E t \in ConcTokens : CmGetEntitiesWithComponent(1, t)
  \/ QueryReturn(1)

SpecViews == Init /\ [][NextViews]_vars

\* The ids a slice lists
Ids(q) == {q[i] : i \in 1..Len(q)}

\* C32: in a sequential history of CreateEntity, DestroyEntity, AddComponent,
\* RemoveComponent and Clear, for every token t below the mask width, the ids
\* GetEntitiesWithComponents(1 << t) returns are the ids that have a payload
\* stored under t, and the ids ComponentManager.GetEntitiesWithComponent(t)
\* returns are the alive ids whose mask has bit t: made in the same state, the
\* two queries return the same set.
C32_MaskAndStorageQueriesAgree ==
  [][\A t \in ConcTokens :
       /\ GetEntitiesWithComponents(1, Shl(t)) =>
            Ids(result') = (IF t \in DOMAIN components
                            THEN DOMAIN components[t] ELSE {})
       /\ CmGetEntitiesWithComponent(1, t) =>
            Ids(result') = {id \in Alive : MaskBit(id, t)}]_vars

\* C32 witness: of the two alive entities, 2 and 3, one has a component, and
\* a query has returned that entity alone.
C32_Witness ==
  /\ pc[1] = "QueryReturn"
  /\ Cardinality(Alive) = 2
  /\ Len(result) = 1
  /\ CmHasComponent(result[1], 0)
  /\ MaskBit(result[1], 0)
  /\ nextID = 3
  /\ entityPool = {}

C34_OldHandleActsOnNewEntity ==
  [][/\ IF freeIDs # <<>> /\ CreateEntity(1)
        THEN \A e \in {freeIDs[Len(freeIDs)]} :
               /\ e \notin Alive
               /\ Alive' = Alive \cup {e}
               /\ componentMask'[entities'[e]] = {}
               /\ \A t \in ConcTokens : ~CmHasComponent(e, t)'
        ELSE TRUE
     /\ \A e \in Alive :
          /\ \A c \in ConcComponents :
               AddComponentLookup(1, e, c) =>
                 pc'[1] = "AddGetType" /\ entity'[1] = entities[e]
          /\ \A t \in ConcTokens :
               RemoveComponentLookup(1, e, t) =>
                 pc'[1] = "RemoveStore" /\ entity'[1] = entities[e]
          /\ DestroyEntity(1, e) => e \notin Alive'
     /\ AddComponentMask(1) =>
          /\ callId[1] \in Alive
          /\ callType[1] \in componentMask'[entities[callId[1]]]
          /\ CmHasComponent(callId[1], callType[1])]_vars

\* C34 witness: 2 is the only id ever handed out and a record is back in the
\* pool, so that entity 2 was destroyed and created again; an AddComponent
\* given the id 2 since then has put its component on the new entity.
C34_Witness ==
  /\ nextID = 2
  /\ Alive = {2}
  /\ freeIDs = <<>>
  /\ entityPool # {}
  /\ CmHasComponent(2, 0)
  /\ MaskBit(2, 0)
  /\ Idle(1)

\* ------------------------------------------------------------------- C35
\* The event bus: handlers subscribe, events are emitted into the queue of
\* the started bus and taken out by its workers, and callers process events
\* themselves with EmitSync, all at the same time.
NextBus ==
  \/ BusStart
  \/ Emit
  \/ \E p \in {0, 1} : SubscribeWithPriority(p)
  \/ SubscribeOnce
  \/ \E th \in Threads : WorkerReceive(th)
  \/ \E th \in Threads : WorkerProcessEvent(th)
  \/ \E th \in Threads : EmitSync(th)
  \/ \E th \in Threads : ProcessEventLoop(th)
  \/ \E th \in Threads : ProcessEventRemove(th)

SpecBus == Init /\ [][NextBus]_vars

\* The IDs SubscribeOnce has returned: those of the listeners with Once set
\* that are in the list or in the copy of a goroutine
OnceIDs ==
  {listeners[i].ID : i \in {j \in 1..Len(listeners) : listeners[j].Once}}
    \cup UNION {{listenersCopy[th][i].ID :
                   i \in {j \in 1..Len(listenersCopy[th]) :
                            listenersCopy[th][j].Once}} : th \in Threads}
    \cup UNION {{listenersToRemove[th][i] :
                   i \in 1..Len(listenersToRemove[th])} : th \in Threads}

\* C35: the handler of a listener registered with SubscribeOnce is called at
\* most once in total, whichever goroutines process the events of its type.
C35_OnceHandlerCalledAtMostOnce == \A h \in OnceIDs : handled[h] <= 1

\* ------------------------------------------------------------------- C36
\* The resource manager: a loader is registered and the goroutines call
\* LoadSync for the path, all at the same time; nothing is unloaded.
NextRes ==
  \/ RegisterLoader
  \/ \E th \in Threads : LoadSyncCheck(th)
  \/ \E th \in Threads : LoadSyncLoader(th)
  \/ \E th \in Threads : LoadSyncStore(th)
  \/ \E th \in Threads, ok \in BOOLEAN : LoadSyncLoad(th, ok)
  \/ \E th \in Threads : LoadSyncReturn(th)

SpecRes == Init /\ [][NextRes]_vars

\* C36: when every LoadSync call made for the path has returned a nil error,
\* and there have been n of them, the manager holds a Resource for the path,
\* the RefCount of that Resource is n, and loader.Load has been called once.
C36_LoadSyncCountsEveryCaller ==
  ((\A th \in Threads : lpc[th] = "idle") /\ returned = loadSyncs
     /\ returned >= 1) =>
    /\ cache
    /\ resources # NoRes
    /\ refCount[resources] = returned
    /\ loadCalls = 1

\* ------------------------------------------------------------------- C37
\* C37: whenever no operation is in progress, the ComponentManager holds a
\* payload only under the ids of alive entities; an entity that CreateEntity
\* has just returned therefore has no component, and no AddComponent to it
\* returns ErrComponentExists.
C37_NoPayloadWithoutEntity ==
  Quiescent =>
    \A t \in DOMAIN components : DOMAIN components[t] \subseteq Alive

\* ------------------------------------------------------------------- C38
\* Recycling: the goroutines create and destroy entities and add and remove
\* components, in any interleaving; nothing is cleared.
NextRecycle ==
  \/ \E th \in Threads : CreateEntity(th)
  \/ \E th \in Threads, id \in IdInputs : DestroyEntity(th, id)
  \/ \E th \in Threads, id \in IdInputs, c \in ConcComponents :
       AddComponentLookup(th, id, c)
  \/ \E th \in Threads, id \in IdInputs, t \in ConcTokens :
       RemoveComponentLookup(th, id, t)
  \/ \E th \in Threads : CmGetComponentType(th)
  \/ \E th \in Threads : CmRegister(th)
  \/ \E th \in Threads : CmAddComponent(th)
  \/ \E th \in Threads : AddComponentMask(th)
  \/ \E th \in Threads : CmRemoveComponent(th)
  \/ \E th \in Threads : RemoveComponentMask(th)

SpecRecycle == Init /\ [][NextRecycle]_vars

\* C38: an AddComponent(e, c) or RemoveComponent(e, t) call changes the mask
\* and the stored components of entity e only: no step of the call modifies
\* the mask or a payload of another alive entity, whatever DestroyEntity and
\* CreateEntity calls run in between.
C38_OnlyTheEntityOfTheCallChanges ==
  [][\A th \in Threads :
       (CmAddComponent(th) \/ AddComponentMask(th)
          \/ CmRemoveComponent(th) \/ RemoveComponentMask(th)) =>
         \A id \in Alive \ {callId[th]} :
           /\ componentMask'[entities[id]] = componentMask[entities[id]]
           /\ \A t \in DOMAIN components :
                CmHasComponent(id, t)' <=> CmHasComponent(id, t)]_vars

\* ------------------------------------------------------------------- C39
\* C39: in every reachable state the free list holds no id twice, no id that
\* is alive, and only ids that CreateEntity has handed out before, which are
\* the ids from 2 to nextID.
C39_FreeListIsSound ==
  /\ \A i, j \in 1..Len(freeIDs) : freeIDs[i] = freeIDs[j] => i = j
  /\ \A i \in 1..Len(freeIDs) : freeIDs[i] \notin Alive
  /\ \A i \in 1..Len(freeIDs) : 2 <= freeIDs[i] /\ freeIDs[i] <= nextID

\* C39 witness: two ids are on the free list, not in the order in which they
\* were handed out, and another entity is alive.
C39_Witness ==
  /\ Len(freeIDs) = 2
  /\ freeIDs[1] > freeIDs[2]
  /\ Alive # {}

\* ------------------------------------------------------------------- C40
\* The list that the Update call in progress ranges over, as it was when the
\* call took its copy, does not appear among the variables once sm.systems has
\* changed; the formula below speaks of it through snapshot, which only
\* SystemManagerUpdateCopy and the end of the loop write.
\*
\* q lists elements of r at increasing positions of r
IsSubSeq(q, r) ==
  \E f \in [1..Len(q) -> 1..Len(r)] :
    /\ \A i, j \in 1..Len(q) : i < j => f[i] < f[j]
    /\ \A i \in 1..Len(q) : q[i] = r[f[i]]

\* C40: the systems that one Update call invokes are drawn from the list as
\* it was when the call copied it. While the call is in its loop, AddSystem,
\* RemoveSystem and SystemManager.Clear change sm.systems only: the call goes
\* on through its copy in order, invoking each enabled system of it whether or
\* not it is still in sm.systems, and no system that is not in the copy; the
\* changed list is what the next Update call copies.
C40_UpdateRangesOverItsCopy ==
  /\ [](upc = "loop" =>
          /\ idx \in 1..(Len(snapshot) + 1)
          /\ IsSubSeq(invoked, SubSeq(snapshot, 1, idx - 1)))
  /\ [][upc = "loop" /\ upc' = "loop" =>
          /\ snapshot' = snapshot
          /\ idx' # idx =>
               /\ idx <= Len(snapshot)
               /\ idx' = idx + 1
               /\ invoked' = IF enabled[snapshot[idx]]
                             THEN Append(invoked, snapshot[idx])
                             ELSE invoked
          /\ systems' # systems => UNCHANGED <<idx, invoked>>]_vars
  /\ [][upc = "copy" /\ upc' = "loop" =>
          snapshot' = systems /\ invoked' = <<>>]_vars

\* C40 witness: an Update call is in its loop after one invocation; the
\* enabled system that is next in its copy has been taken out of sm.systems
\* since the copy, and sm.systems holds a system that the copy does not.
C40_Witness ==
  /\ upc = "loop"
  /\ idx = 2
  /\ Len(snapshot) = 2
  /\ invoked = <<snapshot[1]>>
  /\ enabled[snapshot[2]]
  /\ \A i \in 1..Len(systems) : systems[i] # snapshot[2]
  /\ \E i \in 1..Len(systems) : \A j \in 1..2 : systems[i] # snapshot[j]

====
